---- MODULE Spec2Model ----
(***************************************************************************)
(* Hybrid routing of the T3nets chat handler: the raw-flag extractor, the  *)
(* conversational classifier and the rule matcher of                       *)
(* agent/router/rule_router.py, the synchronous DirectBus, the SQLite      *)
(* conversation store, and DevHandler._handle_chat of                      *)
(* adapters/local/dev_server.py, which ties them together.                 *)
(*                                                                         *)
(* A Python str is a sequence of one-character strings (opaque phrases     *)
(* such as a system prompt are one element).  A Python dict is a sequence  *)
(* of <<key, value>> pairs in insertion order.                             *)
(***************************************************************************)
EXTENDS Integers, Sequences, FiniteSets, TLC

\* ------------------------------------------------------------------------
\* Characters and the str methods the router uses
\* ------------------------------------------------------------------------

LowerLetters ==
  {"a","b","c","d","e","f","g","h","i","j","k","l","m",
   "n","o","p","q","r","s","t","u","v","w","x","y","z"}

UpperToLower ==
  [A |-> "a", B |-> "b", C |-> "c", D |-> "d", E |-> "e", F |-> "f", G |-> "g",
   H |-> "h", I |-> "i", J |-> "j", K |-> "k", L |-> "l", M |-> "m", N |-> "n",
   O |-> "o", P |-> "p", Q |-> "q", R |-> "r", S |-> "s", T |-> "t", U |-> "u",
   V |-> "v", W |-> "w", X |-> "x", Y |-> "y", Z |-> "z"]

Digits ==
  {"0","1","2","3","4","5","6","7","8","9"}

\* \w of the re module
WordChars ==
  LowerLetters \cup DOMAIN UpperToLower \cup Digits \cup {"_"}

\* \s of the re module, and what str.strip() removes
Whitespace ==
  {" ", "\t", "\n"}

LowerChar(c) ==
  IF c \in DOMAIN UpperToLower THEN UpperToLower[c] ELSE c

\* str.lower()
Lower(s) ==
  [k \in 1..Len(s) |-> LowerChar(s[k])]

\* str.strip()
Strip(s) ==
  LET keep == {k \in 1..Len(s) : s[k] \notin Whitespace}
  IN  IF keep = {} THEN <<>>
      ELSE LET lo == CHOOSE k \in keep : \A j \in keep : k <= j
               hi == CHOOSE k \in keep : \A j \in keep : k >= j
           IN  SubSeq(s, lo, hi)

\* `needle in haystack` for str
Contains(haystack, needle) ==
  \E i \in 0..(Len(haystack) - Len(needle)) :
    \A k \in 1..Len(needle) : haystack[i + k] = needle[k]

\* ------------------------------------------------------------------------
\* Regular expressions: the syntax tree of a pattern and the set of offsets
\* at which a match that starts at a given offset can end
\* ------------------------------------------------------------------------

Lit(s) == [op |-> "lit", s |-> s]
Set(cs) == [op |-> "set", cs |-> cs]
Bnd == [op |-> "bnd"]
Bol == [op |-> "bol"]
Eol == [op |-> "eol"]
Cat(rs) == [op |-> "cat", rs |-> rs]
Alt(rs) == [op |-> "alt", rs |-> rs]
Opt(r) == [op |-> "opt", r |-> r]
Star(r) == [op |-> "star", r |-> r]
Plus(r) == [op |-> "plus", r |-> r]

\* `.` matches everything but a newline
Dot == [op |-> "dot"]

IsWordAt(t, k) ==
  k \in 1..Len(t) /\ t[k] \in WordChars

RECURSIVE Ends(_, _, _)
RECURSIVE CatEnds(_, _, _, _)
RECURSIVE StarEnds(_, _, _, _)

\* Offsets j such that `re` matches t[i+1..j].  Literals are compared
\* case-insensitively: every pattern is either compiled with re.IGNORECASE
\* or applied to text that was lower-cased first.
Ends(re, t, i) ==
  CASE re.op = "lit" ->
         IF i + Len(re.s) <= Len(t)
            /\ \A k \in 1..Len(re.s) : LowerChar(t[i + k]) = re.s[k]
         THEN {i + Len(re.s)} ELSE {}
    [] re.op = "set" ->
         IF i < Len(t) /\ t[i + 1] \in re.cs THEN {i + 1} ELSE {}
    [] re.op = "dot" ->
         IF i < Len(t) /\ t[i + 1] # "\n" THEN {i + 1} ELSE {}
    [] re.op = "bnd" ->
         IF IsWordAt(t, i) # IsWordAt(t, i + 1) THEN {i} ELSE {}
    [] re.op = "bol" -> IF i = 0 THEN {i} ELSE {}
    [] re.op = "eol" ->
         IF i = Len(t) \/ (i = Len(t) - 1 /\ t[Len(t)] = "\n") THEN {i} ELSE {}
    [] re.op = "cat" -> CatEnds(re.rs, 1, t, {i})
    [] re.op = "alt" -> UNION {Ends(re.rs[k], t, i) : k \in 1..Len(re.rs)}
    [] re.op = "opt" -> {i} \cup Ends(re.r, t, i)
    [] re.op = "star" -> StarEnds(re.r, t, {i}, {i})
    [] re.op = "plus" ->
         LET first == Ends(re.r, t, i) IN StarEnds(re.r, t, first, first)

CatEnds(rs, k, t, from) ==
  IF k > Len(rs) \/ from = {} THEN from
  ELSE CatEnds(rs, k + 1, t, UNION {Ends(rs[k], t, j) : j \in from})

StarEnds(r, t, seen, frontier) ==
  LET next == UNION {Ends(r, t, j) : j \in frontier} \ seen
  IN  IF next = {} THEN seen ELSE StarEnds(r, t, seen \cup next, next)

\* pattern.search(t)
Search(re, t) ==
  \E i \in 0..Len(t) : Ends(re, t, i) # {}

\* re.match(pattern, t)
MatchAtStart(re, t) ==
  Ends(re, t, 0) # {}

SKILL_ACTION_RULES ==
  [ sprint_status |-> <<
      \* \bblock(ed|er|ing|s)?\b
      [pattern |-> Cat(<<Bnd, Lit(<<"b","l","o","c","k">>), Opt(Alt(<<Lit(<<"e","d">>), Lit(<<"e","r">>), Lit(<<"i","n","g">>), Lit(<<"s">>)>>)), Bnd>>), action |-> "blockers"],
      \* \bimpediment\b
      [pattern |-> Cat(<<Bnd, Lit(<<"i","m","p","e","d","i","m","e","n","t">>), Bnd>>), action |-> "blockers"],
      \* \bstuck\b
      [pattern |-> Cat(<<Bnd, Lit(<<"s","t","u","c","k">>), Bnd>>), action |-> "blockers"],
      \* \bflagged\b
      [pattern |-> Cat(<<Bnd, Lit(<<"f","l","a","g","g","e","d">>), Bnd>>), action |-> "blockers"],
      \* \bmy\b.*\b(ticket|task|work|item|issue|story|bug|stor(y|ies))\b
      [pattern |-> Cat(<<Bnd, Lit(<<"m","y">>), Bnd, Star(Dot), Bnd, Alt(<<Lit(<<"t","i","c","k","e","t">>), Lit(<<"t","a","s","k">>), Lit(<<"w","o","r","k">>), Lit(<<"i","t","e","m">>), Lit(<<"i","s","s","u","e">>), Lit(<<"s","t","o","r","y">>), Lit(<<"b","u","g">>), Cat(<<Lit(<<"s","t","o","r">>), Alt(<<Lit(<<"y">>), Lit(<<"i","e","s">>)>>)>>)>>), Bnd>>), action |-> "mine"],
      \* \b(ticket|task|work|item|issue)s?\b.*\b(for me|assigned to me|mine)\b
      [pattern |-> Cat(<<Bnd, Alt(<<Lit(<<"t","i","c","k","e","t">>), Lit(<<"t","a","s","k">>), Lit(<<"w","o","r","k">>), Lit(<<"i","t","e","m">>), Lit(<<"i","s","s","u","e">>)>>), Opt(Lit(<<"s">>)), Bnd, Star(Dot), Bnd, Alt(<<Lit(<<"f","o","r"," ","m","e">>), Lit(<<"a","s","s","i","g","n","e","d"," ","t","o"," ","m","e">>), Lit(<<"m","i","n","e">>)>>), Bnd>>), action |-> "mine"],
      \* \bwhat\b.*\b(am i|i am|i'm)\b.*\b(working|doing)\b
      [pattern |-> Cat(<<Bnd, Lit(<<"w","h","a","t">>), Bnd, Star(Dot), Bnd, Alt(<<Lit(<<"a","m"," ","i">>), Lit(<<"i"," ","a","m">>), Lit(<<"i","'","m">>)>>), Bnd, Star(Dot), Bnd, Alt(<<Lit(<<"w","o","r","k","i","n","g">>), Lit(<<"d","o","i","n","g">>)>>), Bnd>>), action |-> "mine"],
      \* \bassigned to me\b
      [pattern |-> Cat(<<Bnd, Lit(<<"a","s","s","i","g","n","e","d"," ","t","o"," ","m","e">>), Bnd>>), action |-> "mine"],
      \* \bmy\b.*\bjira\b
      [pattern |-> Cat(<<Bnd, Lit(<<"m","y">>), Bnd, Star(Dot), Bnd, Lit(<<"j","i","r","a">>), Bnd>>), action |-> "mine"],
      \* \bjira\b.*\bmy\b
      [pattern |-> Cat(<<Bnd, Lit(<<"j","i","r","a">>), Bnd, Star(Dot), Bnd, Lit(<<"m","y">>), Bnd>>), action |-> "mine"],
      \* \bwhat.*\bi\s+(have|need|should)\b
      [pattern |-> Cat(<<Bnd, Lit(<<"w","h","a","t">>), Star(Dot), Bnd, Lit(<<"i">>), Plus(Set(Whitespace)), Alt(<<Lit(<<"h","a","v","e">>), Lit(<<"n","e","e","d">>), Lit(<<"s","h","o","u","l","d">>)>>), Bnd>>), action |-> "mine"],
      \* \bstatus\b
      [pattern |-> Cat(<<Bnd, Lit(<<"s","t","a","t","u","s">>), Bnd>>), action |-> "status"],
      \* \bsprint\b
      [pattern |-> Cat(<<Bnd, Lit(<<"s","p","r","i","n","t">>), Bnd>>), action |-> "status"],
      \* \btrack\b
      [pattern |-> Cat(<<Bnd, Lit(<<"t","r","a","c","k">>), Bnd>>), action |-> "status"],
      \* \bprogress\b
      [pattern |-> Cat(<<Bnd, Lit(<<"p","r","o","g","r","e","s","s">>), Bnd>>), action |-> "status"],
      \* \boverview\b
      [pattern |-> Cat(<<Bnd, Lit(<<"o","v","e","r","v","i","e","w">>), Bnd>>), action |-> "status"],
      \* \bhealth\b
      [pattern |-> Cat(<<Bnd, Lit(<<"h","e","a","l","t","h">>), Bnd>>), action |-> "status"],
      \* \bremaining\b
      [pattern |-> Cat(<<Bnd, Lit(<<"r","e","m","a","i","n","i","n","g">>), Bnd>>), action |-> "status"],
      \* \bhow.*we\b
      [pattern |-> Cat(<<Bnd, Lit(<<"h","o","w">>), Star(Dot), Lit(<<"w","e">>), Bnd>>), action |-> "status"],
      \* \bare we\b
      [pattern |-> Cat(<<Bnd, Lit(<<"a","r","e"," ","w","e">>), Bnd>>), action |-> "status"],
      \* \brelease\b
      [pattern |-> Cat(<<Bnd, Lit(<<"r","e","l","e","a","s","e">>), Bnd>>), action |-> "status"],
      \* \bburn\s*down\b
      [pattern |-> Cat(<<Bnd, Lit(<<"b","u","r","n">>), Star(Set(Whitespace)), Lit(<<"d","o","w","n">>), Bnd>>), action |-> "status"],
      \* \bvelocity\b
      [pattern |-> Cat(<<Bnd, Lit(<<"v","e","l","o","c","i","t","y">>), Bnd>>), action |-> "status"],
      \* \bscope\b
      [pattern |-> Cat(<<Bnd, Lit(<<"s","c","o","p","e">>), Bnd>>), action |-> "status"],
      \* \bleft\b.*\bsprint\b
      [pattern |-> Cat(<<Bnd, Lit(<<"l","e","f","t">>), Bnd, Star(Dot), Bnd, Lit(<<"s","p","r","i","n","t">>), Bnd>>), action |-> "status"],
      \* \bsprint\b.*\bleft\b
      [pattern |-> Cat(<<Bnd, Lit(<<"s","p","r","i","n","t">>), Bnd, Star(Dot), Bnd, Lit(<<"l","e","f","t">>), Bnd>>), action |-> "status"]
    >>
  , meeting_prep |-> <<
      \* \b(next|upcoming)\s+meeting\b
      [pattern |-> Cat(<<Bnd, Alt(<<Lit(<<"n","e","x","t">>), Lit(<<"u","p","c","o","m","i","n","g">>)>>), Plus(Set(Whitespace)), Lit(<<"m","e","e","t","i","n","g">>), Bnd>>), action |-> "prepare"],
      \* \bmeeting\b.*\b(prep|prepare|brief|ready)\b
      [pattern |-> Cat(<<Bnd, Lit(<<"m","e","e","t","i","n","g">>), Bnd, Star(Dot), Bnd, Alt(<<Lit(<<"p","r","e","p">>), Lit(<<"p","r","e","p","a","r","e">>), Lit(<<"b","r","i","e","f">>), Lit(<<"r","e","a","d","y">>)>>), Bnd>>), action |-> "prepare"],
      \* \bbrief\s*(me|ing)\b
      [pattern |-> Cat(<<Bnd, Lit(<<"b","r","i","e","f">>), Star(Set(Whitespace)), Alt(<<Lit(<<"m","e">>), Lit(<<"i","n","g">>)>>), Bnd>>), action |-> "prepare"],
      \* \bagenda\b
      [pattern |-> Cat(<<Bnd, Lit(<<"a","g","e","n","d","a">>), Bnd>>), action |-> "agenda"],
      \* \btopics?\b.*\bmeeting\b
      [pattern |-> Cat(<<Bnd, Lit(<<"t","o","p","i","c">>), Opt(Lit(<<"s">>)), Bnd, Star(Dot), Bnd, Lit(<<"m","e","e","t","i","n","g">>), Bnd>>), action |-> "agenda"]
    >>
  , email_triage |-> <<
      \* \b(urgent|important|priority)\b.*\b(email|message|mail)\b
      [pattern |-> Cat(<<Bnd, Alt(<<Lit(<<"u","r","g","e","n","t">>), Lit(<<"i","m","p","o","r","t","a","n","t">>), Lit(<<"p","r","i","o","r","i","t","y">>)>>), Bnd, Star(Dot), Bnd, Alt(<<Lit(<<"e","m","a","i","l">>), Lit(<<"m","e","s","s","a","g","e">>), Lit(<<"m","a","i","l">>)>>), Bnd>>), action |-> "priority"],
      \* \b(email|message|mail)\b.*\b(urgent|important|priority)\b
      [pattern |-> Cat(<<Bnd, Alt(<<Lit(<<"e","m","a","i","l">>), Lit(<<"m","e","s","s","a","g","e">>), Lit(<<"m","a","i","l">>)>>), Bnd, Star(Dot), Bnd, Alt(<<Lit(<<"u","r","g","e","n","t">>), Lit(<<"i","m","p","o","r","t","a","n","t">>), Lit(<<"p","r","i","o","r","i","t","y">>)>>), Bnd>>), action |-> "priority"],
      \* \binbox\b
      [pattern |-> Cat(<<Bnd, Lit(<<"i","n","b","o","x">>), Bnd>>), action |-> "summary"],
      \* \b(unread|new)\b.*\b(email|message|mail)\b
      [pattern |-> Cat(<<Bnd, Alt(<<Lit(<<"u","n","r","e","a","d">>), Lit(<<"n","e","w">>)>>), Bnd, Star(Dot), Bnd, Alt(<<Lit(<<"e","m","a","i","l">>), Lit(<<"m","e","s","s","a","g","e">>), Lit(<<"m","a","i","l">>)>>), Bnd>>), action |-> "summary"],
      \* \bemail\b
      [pattern |-> Cat(<<Bnd, Lit(<<"e","m","a","i","l">>), Bnd>>), action |-> "summary"],
      \* \bmail\b
      [pattern |-> Cat(<<Bnd, Lit(<<"m","a","i","l">>), Bnd>>), action |-> "summary"]
    >>
  ]

SKILL_PATTERNS ==
  [ sprint_status |-> <<
      \* \bsprint\b
      Cat(<<Bnd, Lit(<<"s","p","r","i","n","t">>), Bnd>>),
      \* \bblock(ed|er|ing|s)?\b
      Cat(<<Bnd, Lit(<<"b","l","o","c","k">>), Opt(Alt(<<Lit(<<"e","d">>), Lit(<<"e","r">>), Lit(<<"i","n","g">>), Lit(<<"s">>)>>)), Bnd>>),
      \* \bon\s*track\b
      Cat(<<Bnd, Lit(<<"o","n">>), Star(Set(Whitespace)), Lit(<<"t","r","a","c","k">>), Bnd>>),
      \* \brelease\s*(status|ready)?\b
      Cat(<<Bnd, Lit(<<"r","e","l","e","a","s","e">>), Star(Set(Whitespace)), Opt(Alt(<<Lit(<<"s","t","a","t","u","s">>), Lit(<<"r","e","a","d","y">>)>>)), Bnd>>),
      \* \bticket\b
      Cat(<<Bnd, Lit(<<"t","i","c","k","e","t">>), Bnd>>),
      \* \btask\b
      Cat(<<Bnd, Lit(<<"t","a","s","k">>), Bnd>>),
      \* \bstory\b
      Cat(<<Bnd, Lit(<<"s","t","o","r","y">>), Bnd>>),
      \* \bbug\b
      Cat(<<Bnd, Lit(<<"b","u","g">>), Bnd>>),
      \* \bissue\b
      Cat(<<Bnd, Lit(<<"i","s","s","u","e">>), Bnd>>),
      \* \bjira\b
      Cat(<<Bnd, Lit(<<"j","i","r","a">>), Bnd>>),
      \* \bhow.*doing\b.*\b(sprint|team)\b
      Cat(<<Bnd, Lit(<<"h","o","w">>), Star(Dot), Lit(<<"d","o","i","n","g">>), Bnd, Star(Dot), Bnd, Alt(<<Lit(<<"s","p","r","i","n","t">>), Lit(<<"t","e","a","m">>)>>), Bnd>>),
      \* \bwhat'?s?\s+(left|remaining|blocked)\b
      Cat(<<Bnd, Lit(<<"w","h","a","t">>), Opt(Lit(<<"'">>)), Opt(Lit(<<"s">>)), Plus(Set(Whitespace)), Alt(<<Lit(<<"l","e","f","t">>), Lit(<<"r","e","m","a","i","n","i","n","g">>), Lit(<<"b","l","o","c","k","e","d">>)>>), Bnd>>),
      \* \bare we\s+(on track|going to|behind|ahead)\b
      Cat(<<Bnd, Lit(<<"a","r","e"," ","w","e">>), Plus(Set(Whitespace)), Alt(<<Lit(<<"o","n"," ","t","r","a","c","k">>), Lit(<<"g","o","i","n","g"," ","t","o">>), Lit(<<"b","e","h","i","n","d">>), Lit(<<"a","h","e","a","d">>)>>), Bnd>>),
      \* \bburn\s*down\b
      Cat(<<Bnd, Lit(<<"b","u","r","n">>), Star(Set(Whitespace)), Lit(<<"d","o","w","n">>), Bnd>>),
      \* \bvelocity\b
      Cat(<<Bnd, Lit(<<"v","e","l","o","c","i","t","y">>), Bnd>>),
      \* \bscope\b
      Cat(<<Bnd, Lit(<<"s","c","o","p","e">>), Bnd>>),
      \* \bmy\b.*\b(ticket|task|work|item|issue|story|bug)\b
      Cat(<<Bnd, Lit(<<"m","y">>), Bnd, Star(Dot), Bnd, Alt(<<Lit(<<"t","i","c","k","e","t">>), Lit(<<"t","a","s","k">>), Lit(<<"w","o","r","k">>), Lit(<<"i","t","e","m">>), Lit(<<"i","s","s","u","e">>), Lit(<<"s","t","o","r","y">>), Lit(<<"b","u","g">>)>>), Bnd>>),
      \* \b(ticket|task|work|item|issue)s?\b.*\b(mine|for me|assigned)\b
      Cat(<<Bnd, Alt(<<Lit(<<"t","i","c","k","e","t">>), Lit(<<"t","a","s","k">>), Lit(<<"w","o","r","k">>), Lit(<<"i","t","e","m">>), Lit(<<"i","s","s","u","e">>)>>), Opt(Lit(<<"s">>)), Bnd, Star(Dot), Bnd, Alt(<<Lit(<<"m","i","n","e">>), Lit(<<"f","o","r"," ","m","e">>), Lit(<<"a","s","s","i","g","n","e","d">>)>>), Bnd>>),
      \* \bmy\b.*\bjira\b
      Cat(<<Bnd, Lit(<<"m","y">>), Bnd, Star(Dot), Bnd, Lit(<<"j","i","r","a">>), Bnd>>),
      \* \bjira\b.*\b(work|ticket|task|item)\b
      Cat(<<Bnd, Lit(<<"j","i","r","a">>), Bnd, Star(Dot), Bnd, Alt(<<Lit(<<"w","o","r","k">>), Lit(<<"t","i","c","k","e","t">>), Lit(<<"t","a","s","k">>), Lit(<<"i","t","e","m">>)>>), Bnd>>),
      \* \bwhat\b.*\b(am i|i am|i'm)\b.*\b(working|doing)\b
      Cat(<<Bnd, Lit(<<"w","h","a","t">>), Bnd, Star(Dot), Bnd, Alt(<<Lit(<<"a","m"," ","i">>), Lit(<<"i"," ","a","m">>), Lit(<<"i","'","m">>)>>), Bnd, Star(Dot), Bnd, Alt(<<Lit(<<"w","o","r","k","i","n","g">>), Lit(<<"d","o","i","n","g">>)>>), Bnd>>),
      \* \bwhat.*\bi\s+(have|need)\b.*\b(do|finish|complete)\b
      Cat(<<Bnd, Lit(<<"w","h","a","t">>), Star(Dot), Bnd, Lit(<<"i">>), Plus(Set(Whitespace)), Alt(<<Lit(<<"h","a","v","e">>), Lit(<<"n","e","e","d">>)>>), Bnd, Star(Dot), Bnd, Alt(<<Lit(<<"d","o">>), Lit(<<"f","i","n","i","s","h">>), Lit(<<"c","o","m","p","l","e","t","e">>)>>), Bnd>>),
      \* \bsprint\s*(status|health|progress|overview|update)\b
      Cat(<<Bnd, Lit(<<"s","p","r","i","n","t">>), Star(Set(Whitespace)), Alt(<<Lit(<<"s","t","a","t","u","s">>), Lit(<<"h","e","a","l","t","h">>), Lit(<<"p","r","o","g","r","e","s","s">>), Lit(<<"o","v","e","r","v","i","e","w">>), Lit(<<"u","p","d","a","t","e">>)>>), Bnd>>),
      \* \b(status|health|progress)\b.*\bsprint\b
      Cat(<<Bnd, Alt(<<Lit(<<"s","t","a","t","u","s">>), Lit(<<"h","e","a","l","t","h">>), Lit(<<"p","r","o","g","r","e","s","s">>)>>), Bnd, Star(Dot), Bnd, Lit(<<"s","p","r","i","n","t">>), Bnd>>),
      \* \bdelivery\b.*\b(timeline|risk|status)\b
      Cat(<<Bnd, Lit(<<"d","e","l","i","v","e","r","y">>), Bnd, Star(Dot), Bnd, Alt(<<Lit(<<"t","i","m","e","l","i","n","e">>), Lit(<<"r","i","s","k">>), Lit(<<"s","t","a","t","u","s">>)>>), Bnd>>)
    >>
  , meeting_prep |-> <<
      \* \bmeeting\b
      Cat(<<Bnd, Lit(<<"m","e","e","t","i","n","g">>), Bnd>>),
      \* \bagenda\b
      Cat(<<Bnd, Lit(<<"a","g","e","n","d","a">>), Bnd>>),
      \* \bbrief(ing)?\b
      Cat(<<Bnd, Lit(<<"b","r","i","e","f">>), Opt(Lit(<<"i","n","g">>)), Bnd>>),
      \* \b(next|upcoming)\s+(call|sync|standup|meeting)\b
      Cat(<<Bnd, Alt(<<Lit(<<"n","e","x","t">>), Lit(<<"u","p","c","o","m","i","n","g">>)>>), Plus(Set(Whitespace)), Alt(<<Lit(<<"c","a","l","l">>), Lit(<<"s","y","n","c">>), Lit(<<"s","t","a","n","d","u","p">>), Lit(<<"m","e","e","t","i","n","g">>)>>), Bnd>>)
    >>
  , email_triage |-> <<
      \* \b(inbox|email|mail)\b
      Cat(<<Bnd, Alt(<<Lit(<<"i","n","b","o","x">>), Lit(<<"e","m","a","i","l">>), Lit(<<"m","a","i","l">>)>>), Bnd>>),
      \* \bunread\b
      Cat(<<Bnd, Lit(<<"u","n","r","e","a","d">>), Bnd>>),
      \* \b(urgent|important)\s+(email|message)\b
      Cat(<<Bnd, Alt(<<Lit(<<"u","r","g","e","n","t">>), Lit(<<"i","m","p","o","r","t","a","n","t">>)>>), Plus(Set(Whitespace)), Alt(<<Lit(<<"e","m","a","i","l">>), Lit(<<"m","e","s","s","a","g","e">>)>>), Bnd>>)
    >>
  ]

RAW_FLAG_PATTERN ==
  \* \s*--raw\s*   (re.IGNORECASE)
  Cat(<<Star(Set(Whitespace)), Lit(<<"-","-","r","a","w">>), Star(Set(Whitespace))>>)

conversational_patterns ==
  <<
      \* ^(hi|hey|hello|yo|sup|howdy|good\s*(morning|afternoon|evening))[\s!?.]*$
      Cat(<<Bol, Alt(<<Lit(<<"h","i">>), Lit(<<"h","e","y">>), Lit(<<"h","e","l","l","o">>), Lit(<<"y","o">>), Lit(<<"s","u","p">>), Lit(<<"h","o","w","d","y">>), Cat(<<Lit(<<"g","o","o","d">>), Star(Set(Whitespace)), Alt(<<Lit(<<"m","o","r","n","i","n","g">>), Lit(<<"a","f","t","e","r","n","o","o","n">>), Lit(<<"e","v","e","n","i","n","g">>)>>)>>)>>), Star(Set(Whitespace \cup {"!"} \cup {"?"} \cup {"."})), Eol>>),
      \* ^(thanks|thank you|thx|ty|cheers|appreciated)[\s!?.]*$
      Cat(<<Bol, Alt(<<Lit(<<"t","h","a","n","k","s">>), Lit(<<"t","h","a","n","k"," ","y","o","u">>), Lit(<<"t","h","x">>), Lit(<<"t","y">>), Lit(<<"c","h","e","e","r","s">>), Lit(<<"a","p","p","r","e","c","i","a","t","e","d">>)>>), Star(Set(Whitespace \cup {"!"} \cup {"?"} \cup {"."})), Eol>>),
      \* ^(bye|goodbye|see you|later|cya)[\s!?.]*$
      Cat(<<Bol, Alt(<<Lit(<<"b","y","e">>), Lit(<<"g","o","o","d","b","y","e">>), Lit(<<"s","e","e"," ","y","o","u">>), Lit(<<"l","a","t","e","r">>), Lit(<<"c","y","a">>)>>), Star(Set(Whitespace \cup {"!"} \cup {"?"} \cup {"."})), Eol>>),
      \* ^(yes|no|yep|nope|yeah|nah|ok|okay|sure|got it)[\s!?.]*$
      Cat(<<Bol, Alt(<<Lit(<<"y","e","s">>), Lit(<<"n","o">>), Lit(<<"y","e","p">>), Lit(<<"n","o","p","e">>), Lit(<<"y","e","a","h">>), Lit(<<"n","a","h">>), Lit(<<"o","k">>), Lit(<<"o","k","a","y">>), Lit(<<"s","u","r","e">>), Lit(<<"g","o","t"," ","i","t">>)>>), Star(Set(Whitespace \cup {"!"} \cup {"?"} \cup {"."})), Eol>>),
      \* ^(help|what can you do|who are you|what are you)[\s!?.]*$
      Cat(<<Bol, Alt(<<Lit(<<"h","e","l","p">>), Lit(<<"w","h","a","t"," ","c","a","n"," ","y","o","u"," ","d","o">>), Lit(<<"w","h","o"," ","a","r","e"," ","y","o","u">>), Lit(<<"w","h","a","t"," ","a","r","e"," ","y","o","u">>)>>), Star(Set(Whitespace \cup {"!"} \cup {"?"} \cup {"."})), Eol>>),
      \* ^(lol|haha|heh|nice|cool|great|awesome)[\s!?.]*$
      Cat(<<Bol, Alt(<<Lit(<<"l","o","l">>), Lit(<<"h","a","h","a">>), Lit(<<"h","e","h">>), Lit(<<"n","i","c","e">>), Lit(<<"c","o","o","l">>), Lit(<<"g","r","e","a","t">>), Lit(<<"a","w","e","s","o","m","e">>)>>), Star(Set(Whitespace \cup {"!"} \cup {"?"} \cup {"."})), Eol>>)
  >>

EMAIL_PATTERN ==
  \* [\w.+-]+@[\w-]+\.[\w.]+
  Cat(<<Plus(Set(WordChars \cup {"."} \cup {"+"} \cup {"-"})), Lit(<<"@">>), Plus(Set(WordChars \cup {"-"})), Lit(<<".">>), Plus(Set(WordChars \cup {"."}))>>)

\* ------------------------------------------------------------------------
\* agent/router/rule_router.py
\* ------------------------------------------------------------------------

Max(S) ==
  CHOOSE m \in S : \A j \in S : j <= m

RECURSIVE SubFrom(_, _, _, _)

\* The rewrite of t[i+1..] by pattern.sub(repl, t): the leftmost match is
\* replaced and the scan resumes behind it.  The only choice points of the
\* pattern this is used with are greedy \s*, so the match that starts at
\* offset i is the one with the largest end; it is never empty.
SubFrom(re, repl, t, i) ==
  IF i >= Len(t) THEN <<>>
  ELSE LET e == Ends(re, t, i)
       IN  IF e # {} /\ Max(e) > i
           THEN repl \o SubFrom(re, repl, t, Max(e))
           ELSE <<t[i + 1]>> \o SubFrom(re, repl, t, i + 1)

\* pattern.sub(repl, t)
Sub(re, repl, t) ==
  SubFrom(re, repl, t, 0)

\* Variant of strip_raw_flag that replaces a marker by nothing, so that the
\* characters around it are joined; C16 is tested against it.
strip_raw_flag_joining(text) ==
  IF Search(RAW_FLAG_PATTERN, text)
  THEN [text |-> Strip(Sub(RAW_FLAG_PATTERN, <<>>, text)), is_raw |-> TRUE]
  ELSE [text |-> text, is_raw |-> FALSE]

\* Variant of strip_raw_flag without .strip(); C17 is tested against it.
strip_raw_flag_untrimmed(text) ==
  IF Search(RAW_FLAG_PATTERN, text)
  THEN [text |-> Sub(RAW_FLAG_PATTERN, <<" ">>, text), is_raw |-> TRUE]
  ELSE [text |-> text, is_raw |-> FALSE]

strip_raw_flag(text) ==
  IF Search(RAW_FLAG_PATTERN, text)
  THEN [text |-> Strip(Sub(RAW_FLAG_PATTERN, <<" ">>, text)), is_raw |-> TRUE]
  ELSE [text |-> text, is_raw |-> FALSE]

is_conversational(text) ==
  LET text_lower == Strip(Lower(text))
  IN  \E k \in 1..Len(conversational_patterns) :
        MatchAtStart(conversational_patterns[k], text_lower)

\* dict.get(key, []) on the two pattern tables
PatternsOf(table, skill_name) ==
  IF skill_name \in DOMAIN table THEN table[skill_name] ELSE <<>>

\* One RuleSet per registered skill, in registration order (a dict keeps
\* insertion order).
build_rule_sets(skills) ==
  [k \in 1..Len(skills) |->
     [skill_name |-> skills[k].name,
      supports_raw |-> skills[k].supports_raw,
      triggers |-> [j \in 1..Len(skills[k].triggers) |->
                      Strip(Lower(skills[k].triggers[j]))],
      patterns |-> PatternsOf(SKILL_PATTERNS, skills[k].name),
      action_rules |-> PatternsOf(SKILL_ACTION_RULES, skills[k].name)]]

\* RuleBasedRouter(skills, confidence_threshold): the threshold is kept in
\* hundredths.
RuleBasedRouter(skills, threshold_pct) ==
  [skills |-> skills,
   confidence_threshold |-> threshold_pct,
   rule_sets |-> build_rule_sets(skills)]

\* A confidence c is kept exact as the integer c * ScoreDen(text_lower).
ScoreDen(text_lower) ==
  100 * (IF Len(text_lower) > 1 THEN Len(text_lower) ELSE 1)

MinOf(a, b) == IF a < b THEN a ELSE b

MaxOf(a, b) == IF a > b THEN a ELSE b

\* Variant of _score_match that counts pattern hits only; C20 is tested
\* against it.
score_match_patterns_only(text_lower, rule_set) ==
  LET n == IF Len(text_lower) > 1 THEN Len(text_lower) ELSE 1
      pattern_hits == Cardinality({k \in 1..Len(rule_set.patterns) :
                                     Search(rule_set.patterns[k], text_lower)})
  IN  IF pattern_hits > 0 THEN MinOf(50 + 15 * pattern_hits, 90) * n ELSE 0

\* Variant of _score_match that adds the trigger score and the pattern
\* score; C27 is tested against it.
score_match_sum(text_lower, rule_set) ==
  LET n == IF Len(text_lower) > 1 THEN Len(text_lower) ELSE 1
      trig == {70 * n + 30 * Len(rule_set.triggers[k]) :
                 k \in {j \in 1..Len(rule_set.triggers) :
                          Contains(text_lower, rule_set.triggers[j])}}
      score1 == IF trig = {} THEN 0 ELSE Max(trig)
      pattern_hits == Cardinality({k \in 1..Len(rule_set.patterns) :
                                     Search(rule_set.patterns[k], text_lower)})
      pattern_score == IF pattern_hits > 0
                       THEN MinOf(50 + 15 * pattern_hits, 90) * n ELSE 0
  IN  MinOf(score1 + pattern_score, 100 * n)

score_match(text_lower, rule_set) ==
  LET n == IF Len(text_lower) > 1 THEN Len(text_lower) ELSE 1
      \* 0.7 + (len(trigger) / max(len(text_lower), 1)) * 0.3
      trig == {70 * n + 30 * Len(rule_set.triggers[k]) :
                 k \in {j \in 1..Len(rule_set.triggers) :
                          Contains(text_lower, rule_set.triggers[j])}}
      score1 == IF trig = {} THEN 0 ELSE Max(trig)
      pattern_hits == Cardinality({k \in 1..Len(rule_set.patterns) :
                                     Search(rule_set.patterns[k], text_lower)})
      \* min(0.5 + pattern_hits * 0.15, 0.9)
      pattern_score == MinOf(50 + 15 * pattern_hits, 90) * n
      score2 == IF pattern_hits > 0 THEN MaxOf(score1, pattern_score) ELSE score1
  IN  MinOf(score2, 100 * n)

\* Variant of _determine_action that takes the last rule that matches;
\* C19 is tested against it.
determine_action_last_hit(text_lower, rule_set) ==
  LET hits == {k \in 1..Len(rule_set.action_rules) :
                 Search(rule_set.action_rules[k].pattern, text_lower)}
  IN  IF hits # {}
      THEN rule_set.action_rules[CHOOSE k \in hits : \A j \in hits : k >= j].action
      ELSE IF Len(rule_set.action_rules) > 0
           THEN rule_set.action_rules[Len(rule_set.action_rules)].action
           ELSE "status"

determine_action(text_lower, rule_set) ==
  LET hits == {k \in 1..Len(rule_set.action_rules) :
                 Search(rule_set.action_rules[k].pattern, text_lower)}
  IN  IF hits # {}
      THEN rule_set.action_rules[CHOOSE k \in hits : \A j \in hits : k <= j].action
      ELSE IF Len(rule_set.action_rules) > 0
           THEN rule_set.action_rules[Len(rule_set.action_rules)].action
           ELSE "status"

\* re.search(pattern, t).group(): the leftmost match; every repetition of
\* the e-mail pattern is greedy and is followed by a character outside its
\* class, so the match that starts there is the one with the largest end.
SearchGroup(re, t) ==
  LET starts == {i \in 0..Len(t) : Ends(re, t, i) # {}}
      i == CHOOSE s \in starts : \A j \in starts : s <= j
  IN  SubSeq(t, i + 1, Max(Ends(re, t, i)))

\* Variant of _extract_params that looks for an address whatever the
\* action; C23 is tested against it.
extract_params_any_action(text_lower, rule_set, action) ==
  LET params == << <<"action", <<action>>>> >>
  IN  IF Search(EMAIL_PATTERN, text_lower)
      THEN params \o << <<"assignee_email", SearchGroup(EMAIL_PATTERN, text_lower)>> >>
      ELSE params

extract_params(text_lower, rule_set, action) ==
  LET params == << <<"action", <<action>>>> >>
  IN  IF action = "mine" /\ Search(EMAIL_PATTERN, text_lower)
      THEN params \o << <<"assignee_email", SearchGroup(EMAIL_PATTERN, text_lower)>> >>
      ELSE params

\* `x in list`
InList(x, list) ==
  \E k \in 1..Len(list) : list[k] = x

\* The value of `best_match` while it is None
NoMatch ==
  [found |-> FALSE, skill_name |-> "", action |-> "", params |-> <<>>,
   confidence |-> 0]

RECURSIVE MatchLoopAnySkill(_, _, _, _, _)

\* Variant of the loop of match without `if skill_name not in enabled_skills:
\* continue`; C1 is tested against it.
MatchLoopAnySkill(rule_sets, text_lower, enabled_skills, k, best) ==
  IF k > Len(rule_sets) THEN best
  ELSE LET rule_set == rule_sets[k]
           confidence == score_match(text_lower, rule_set)
           action == determine_action(text_lower, rule_set)
       IN  IF confidence > best.confidence
           THEN MatchLoopAnySkill(rule_sets, text_lower, enabled_skills, k + 1,
                          [found |-> TRUE,
                           skill_name |-> rule_set.skill_name,
                           action |-> action,
                           params |-> extract_params(text_lower, rule_set, action),
                           confidence |-> confidence])
           ELSE MatchLoopAnySkill(rule_sets, text_lower, enabled_skills, k + 1, best)

RECURSIVE MatchLoop(_, _, _, _, _)

\* The loop of match over self._rule_sets.items(), from rule set k on;
\* best_confidence is best.confidence (0.0 while best_match is None).
MatchLoop(rule_sets, text_lower, enabled_skills, k, best) ==
  IF k > Len(rule_sets) THEN best
  ELSE LET rule_set == rule_sets[k]
           confidence == score_match(text_lower, rule_set)
           action == determine_action(text_lower, rule_set)
       IN  IF ~InList(rule_set.skill_name, enabled_skills)
           THEN MatchLoop(rule_sets, text_lower, enabled_skills, k + 1, best)
           ELSE IF confidence > best.confidence
           THEN MatchLoop(rule_sets, text_lower, enabled_skills, k + 1,
                          [found |-> TRUE,
                           skill_name |-> rule_set.skill_name,
                           action |-> action,
                           params |-> extract_params(text_lower, rule_set, action),
                           confidence |-> confidence])
           ELSE MatchLoop(rule_sets, text_lower, enabled_skills, k + 1, best)

\* Variant of match that returns the best match whatever its confidence;
\* C18 is tested against it.
match_any_confidence(self, text, enabled_skills) ==
  MatchLoop(self.rule_sets, Strip(Lower(text)), enabled_skills, 1, NoMatch)

\* RuleBasedRouter.match; a RouteMatch is a record with found = TRUE, None
\* is NoMatch.  confidence is in units of 1 / ScoreDen(text_lower).
match(self, text, enabled_skills) ==
  LET text_lower == Strip(Lower(text))
      best_match == MatchLoop(self.rule_sets, text_lower, enabled_skills, 1, NoMatch)
  IN  IF best_match.found
         /\ 100 * best_match.confidence
              >= self.confidence_threshold * ScoreDen(text_lower)
      THEN best_match
      ELSE NoMatch

\* SkillRegistry.get_skill: the indexes of the registered skill of that name
SkillIndex(skills, skill_name) ==
  {k \in 1..Len(skills) : skills[k].name = skill_name}

supports_raw(self, skill_name) ==
  LET sets == {k \in 1..Len(self.rule_sets) :
                 self.rule_sets[k].skill_name = skill_name}
      regs == SkillIndex(self.skills, skill_name)
  IN  IF sets # {} THEN self.rule_sets[CHOOSE k \in sets : TRUE].supports_raw
      ELSE IF regs # {} THEN self.skills[CHOOSE k \in regs : TRUE].supports_raw
      ELSE FALSE

\* ------------------------------------------------------------------------
\* The skills the registry holds (agent/skills/*/skill.yaml, loaded by
\* SkillRegistry.load_from_directory) and the router built from them
\* ------------------------------------------------------------------------

Registry ==
  << [name |-> "sprint_status",
      requires_integration |-> "jira",
      supports_raw |-> TRUE,
      triggers |-> << <<"s","p","r","i","n","t"," ","s","t","a","t","u","s">>,
                      <<"b","l","o","c","k","e","r","s">> >>],
     [name |-> "ping",
      requires_integration |-> "",
      supports_raw |-> FALSE,
      triggers |-> << <<"p","i","n","g">> >>],
     [name |-> "meeting_prep",
      requires_integration |-> "",
      supports_raw |-> FALSE,
      triggers |-> << <<"M","e","e","t","i","n","g"," ","P","r","e","p"," ">> >>] >>

\* confidence_threshold=0.5 in init(), in hundredths
CONFIDENCE_THRESHOLD == 50

rule_router ==
  RuleBasedRouter(Registry, CONFIDENCE_THRESHOLD)

\* ------------------------------------------------------------------------
\* agent/skills/registry.py, adapters/local/sqlite_store.py,
\* adapters/local/direct_bus.py
\* ------------------------------------------------------------------------

\* Variant of get_tools_for_tenant that returns a tool for every skill of
\* the registry; C21 is tested against it.
get_tools_of_registry(skills, enabled_skills) ==
  [k \in 1..Len(skills) |-> skills[k].name]

\* SkillRegistry.get_tools_for_tenant: a ToolDefinition is kept by its name
get_tools_for_tenant(skills, enabled_skills) ==
  LET RECURSIVE Tools(_)
      Tools(k) ==
        IF k > Len(enabled_skills) THEN <<>>
        ELSE IF SkillIndex(skills, enabled_skills[k]) = {} THEN Tools(k + 1)
        ELSE <<enabled_skills[k]>> \o Tools(k + 1)
  IN  Tools(1)

\* max_turns of get_conversation
MAX_TURNS == 20

\* SQLiteConversationStore.get_conversation: messages[-(max_turns * 2):]
get_conversation(store, tenant_id, conversation_id) ==
  LET messages == store[<<tenant_id, conversation_id>>]
      n == Len(messages)
  IN  IF n > MAX_TURNS * 2 THEN SubSeq(messages, n - MAX_TURNS * 2 + 1, n)
      ELSE messages

\* Variant of save_turn that finds the row by its conversation id alone;
\* C24 is tested against it.
save_turn_by_conversation(store, tenant_id, conversation_id, user_message, assistant_message) ==
  [c \in DOMAIN store |->
     IF c[2] = conversation_id
     THEN store[c] \o << [role |-> "user", content |-> user_message],
                         [role |-> "assistant", content |-> assistant_message] >>
     ELSE store[c]]

\* SQLiteConversationStore.clear_conversation: the row is deleted, and a
\* conversation without a row reads as the empty list
clear_conversation(store, tenant_id, conversation_id) ==
  [store EXCEPT ![<<tenant_id, conversation_id>>] = <<>>]

\* SQLiteConversationStore.save_turn
save_turn(store, tenant_id, conversation_id, user_message, assistant_message) ==
  [store EXCEPT ![<<tenant_id, conversation_id>>] =
     @ \o << [role |-> "user", content |-> user_message],
             [role |-> "assistant", content |-> assistant_message] >>]

\* _strip_metadata
strip_metadata(messages) ==
  [k \in 1..Len(messages) |->
     [role |-> messages[k].role, content |-> messages[k].content]]

\* What the environment does during one DirectBus.publish: whether
\* secrets.get finds the integration's secrets, and what the worker does.
WorkerEnvs ==
  [secrets_ok : BOOLEAN,
   worker : {"data", "error", "empty", "raise"}]

\* What worker_fn(params, secrets) can do.  execute() of ping returns its
\* pong and execute() of sprint_status its report or its own {"error": ...};
\* both catch what they raise.  A worker that is not among the sources can
\* also return an empty dict or raise.
WorkerCan(skill_name, env) ==
  IF skill_name = "ping" THEN env.worker = "data"
  ELSE IF skill_name = "sprint_status" THEN env.worker \in {"data", "error"}
  ELSE TRUE

\* The dict the worker returns
WorkerResult(skill_name, params, env) ==
  IF skill_name = "ping"
  THEN << <<"status", <<"ok">>>>,
          <<"message", <<"Pong! System is healthy and responding.">>>> >>
  ELSE IF env.worker = "empty" THEN <<>>
  ELSE IF env.worker = "error"
  THEN << <<"error", <<"Jira API error: timed out">>>> >>
  ELSE << <<"skill", <<skill_name>>>> >> \o params

\* What goes wrong inside the try block of DirectBus.publish, if anything:
\* get_worker raises SkillNotFound, secrets.get raises, worker_fn raises
SkillFailure(skills, detail, env) ==
  LET regs == SkillIndex(skills, detail.skill_name)
      skill == skills[CHOOSE k \in regs : TRUE]
  IN  IF regs = {} THEN "not_registered"
      ELSE IF skill.requires_integration # "" /\ ~env.secrets_ok THEN "secrets"
      ELSE IF env.worker = "raise" THEN "worker"
      ELSE ""

\* Variant of publish that does not ask for the secrets of the integration
\* before it runs the worker; C12 is tested against it.
publish_without_secrets(pending, skills, detail, env) ==
  [r \in DOMAIN pending \cup {detail.request_id} |->
     IF r # detail.request_id THEN pending[r]
     ELSE IF env.worker = "raise" THEN << <<"error", <<"worker failed">>>> >>
     ELSE WorkerResult(detail.skill_name, detail.params, env)]

\* DirectBus.publish for a skill.invoke event: the pending results after it
publish(pending, skills, detail, env) ==
  LET regs == SkillIndex(skills, detail.skill_name)
      skill == skills[CHOOSE k \in regs : TRUE]
      result ==
        IF regs = {}
        THEN \* get_worker raises SkillNotFound
             << <<"error", <<"Skill '", detail.skill_name, "' not registered">>>> >>
        ELSE IF skill.requires_integration # "" /\ ~env.secrets_ok
        THEN << <<"error", <<"Integration not configured: ",
                             skill.requires_integration>>>> >>
        ELSE IF env.worker = "raise"
        THEN << <<"error", <<"worker failed">>>> >>
        ELSE WorkerResult(detail.skill_name, detail.params, env)
  IN  [r \in DOMAIN pending \cup {detail.request_id} |->
         IF r = detail.request_id THEN result ELSE pending[r]]

\* Variant of get_result that reads the result and leaves it stored; C30
\* is tested against it.
get_result_keeping(pending, request_id) ==
  IF request_id \in DOMAIN pending
  THEN [found |-> TRUE, value |-> pending[request_id], pending |-> pending]
  ELSE [found |-> FALSE, value |-> <<>>, pending |-> pending]

\* DirectBus.get_result: _pending_results.pop(request_id, None)
get_result(pending, request_id) ==
  IF request_id \in DOMAIN pending
  THEN [found |-> TRUE, value |-> pending[request_id],
        pending |-> [r \in DOMAIN pending \ {request_id} |-> pending[r]]]
  ELSE [found |-> FALSE, value |-> <<>>, pending |-> pending]

\* json.dumps of a dict of strings; indent=2 puts every item on a line
RECURSIVE JsonItems(_, _, _)

JsonItems(d, k, indent) ==
  IF k > Len(d) THEN <<>>
  ELSE (IF indent THEN <<"\n  ">> ELSE <<>>)
       \o <<"\"", d[k][1], "\": \"">> \o d[k][2] \o <<"\"">>
       \o (IF k < Len(d) THEN (IF indent THEN <<",">> ELSE <<", ">>)
           ELSE (IF indent THEN <<"\n">> ELSE <<>>))
       \o JsonItems(d, k + 1, indent)

json_dumps(d, indent) ==
  <<"{">> \o JsonItems(d, 1, indent) \o <<"}">>

\* _format_raw_json
format_raw_json(data) ==
  json_dumps(data, TRUE)

\* ------------------------------------------------------------------------
\* adapters/local/dev_server.py: the state of the server
\* ------------------------------------------------------------------------

VARIABLES
  enabled_skills,   \* tenant.settings.enabled_skills of the default tenant
  memory,           \* the conversations table: <<tenant, conversation>> -> messages
  pending_results,  \* bus._pending_results
  stats,            \* the session counters
  pc,               \* where _handle_chat stands
  req,              \* the locals of the _handle_chat call in progress
  trace,            \* what the call in progress asked of router, model and bus
  sent,             \* the HTTP responses the call in progress has written
  before,           \* memory and stats when the call in progress began
  handled           \* requests received so far

vars ==
  <<enabled_skills, memory, pending_results, stats, pc, req, trace, sent,
    before, handled>>

DEFAULT_TENANT == "local"

DEFAULT_CONVERSATION == "dashboard-default"

\* Requests received in one run
MaxMessages == 1

ConversationIds ==
  {DEFAULT_CONVERSATION, "standup"}

Tenants ==
  {DEFAULT_TENANT}

\* The "text" field of the request bodies
Messages ==
  { <<>>,
    <<"-","-","r","a","w">>,
    <<"h","i">>,
    <<"h","i"," ","t","h","e","r","e">>,
    <<"H","i"," ","-","-","R","A","W">>,
    <<"s","p","r","i","n","t"," ","s","t","a","t","u","s">>,
    <<" ","s","p","r","i","n","t"," ","s","t","a","t","u","s"," ","-","-","r","a","w">>,
    <<"p","i","n","g"," ","-","-","r","a","w">>,
    <<"s","p","r","i","n","t"," ","m","e","e","t","i","n","g"," ","-","-","r","a","w">>,
    <<"w","h","a","t"," ","n","o","w">> }

\* The lists tenant.settings.enabled_skills can hold; "email_triage" is a
\* name the registry does not hold
EnabledSkillLists ==
  { <<>>,
    <<"email_triage", "ping">>,
    <<"ping", "meeting_prep">>,
    <<"meeting_prep", "sprint_status">>,
    <<"sprint_status", "ping", "meeting_prep">> }

\* A conversation left in the database by an earlier run
EarlierTurn ==
  << [role |-> "user", content |-> <<"h","e","l","l","o">>],
     [role |-> "assistant", content |-> <<"Hello!">>] >>

ToolCall(tool_name, tool_params, tool_use_id) ==
  [tool_name |-> tool_name, tool_params |-> tool_params,
   tool_use_id |-> tool_use_id]

AIResponse(text, tool_calls, input_tokens, output_tokens) ==
  [text |-> text, tool_calls |-> tool_calls,
   input_tokens |-> input_tokens, output_tokens |-> output_tokens]

\* AIResponse.has_tool_use
has_tool_use(response) ==
  Len(response.tool_calls) > 0

\* What the model can answer; text None is the empty text
AIResponses ==
  { AIResponse(<<"Here you go.">>, <<>>, 5, 2),
    AIResponse(<<>>, <<>>, 4, 0),
    AIResponse(<<>>,
               <<ToolCall("sprint_status", << <<"action", <<"blockers">>>> >>, "toolu_1")>>,
               6, 3),
    AIResponse(<<"Let me check.">>,
               <<ToolCall("ping", <<>>, "toolu_2"),
                 ToolCall("sprint_status", << <<"action", <<"status">>>> >>, "toolu_3")>>,
               7, 1) }

\* str(e) of what the model call can raise
ModelErrors ==
  { <<"HTTP Error 529: Overloaded">>,
    <<"Invalid API key sk-ant-...">> }

NoToolCall ==
  ToolCall("", <<>>, "")

NoResponse ==
  AIResponse(<<>>, <<>>, 0, 0)

\* The locals of _handle_chat before the request is read
NoRequest ==
  [text |-> <<>>, conversation_id |-> "", clean_text |-> <<>>, is_raw |-> FALSE,
   path |-> "", history |-> <<>>, match |-> NoMatch, tools |-> <<>>,
   messages |-> <<>>, response |-> NoResponse, tool_call |-> NoToolCall,
   skill_result |-> <<>>, final_response |-> NoResponse]

\* One entry of the trace; the fields a kind does not use stay empty
TraceEntry(kind) ==
  [kind |-> kind, raised |-> FALSE, failed |-> "", text |-> <<>>, tools |-> <<>>,
   messages |-> <<>>, tool_use_id |-> "", tool_result |-> <<>>,
   skill_name |-> "", params |-> <<>>, request_id |-> ""]

\* f"""You are an AI assistant for {tenant.name} on the T3nets platform. ..."""
system ==
  <<"You are an AI assistant for ", "Local Development",
    " on the T3nets platform. ...">>

Init ==
  /\ enabled_skills \in EnabledSkillLists
  /\ memory = [c \in Tenants \X ConversationIds |->
                 IF c[2] = DEFAULT_CONVERSATION THEN EarlierTurn ELSE <<>>]
  /\ pending_results = [r \in {} |-> <<>>]
  /\ stats = [rule_routed |-> 0, ai_routed |-> 0, conversational |-> 0,
              raw |-> 0, errors |-> 0, total_tokens |-> 0]
  /\ pc = "idle"
  /\ req = NoRequest
  /\ trace = <<>>
  /\ sent = <<>>
  /\ before = [memory |-> memory, stats |-> stats]
  /\ handled = 0

\* ------------------------------------------------------------------------
\* DevHandler._handle_chat
\* ------------------------------------------------------------------------

\* _json_response(...) for a reply, an error and the empty-message rejection
HttpResponse(status, text, tokens, route, raw, error) ==
  [status |-> status, text |-> text, conversation_id |-> req.conversation_id,
   tokens |-> tokens, route |-> route, raw |-> raw, error |-> error]

\* Variant of the conversational test that does not look at is_raw; C2 is
\* tested against it.
IsConversationalText(is_raw, clean_text) ==
  is_conversational(clean_text)

\* `if not is_raw and rule_router.is_conversational(clean_text)`
IsConversationalTurn(is_raw, clean_text) ==
  ~is_raw /\ is_conversational(clean_text)

\* Variant of the raw test with the skill's setting inverted; C6 is tested
\* against it.
IsRawUnsupported(is_raw, skill_name) ==
  is_raw /\ ~supports_raw(rule_router, skill_name)

\* `if is_raw and rule_router.supports_raw(skill_name)`, on both routes
IsRawResponse(is_raw, skill_name) ==
  is_raw /\ supports_raw(rule_router, skill_name)

\* Variant of the message list that leaves the history out; C3 is tested
\* against it.
UserTurnAlone(history, content) ==
  <<[role |-> "user", content |-> content]>>

\* `messages = history + [{"role": "user", "content": ...}]`
UserTurn(history, content) ==
  history \o <<[role |-> "user", content |-> content]>>

\* `response.text or fallback`
TextOr(text, fallback) ==
  IF text # <<>> THEN text ELSE <<fallback>>

\* Variant of the token count that leaves the input tokens out; C7 is tested
\* against it.
OutputTokensOf(response) ==
  response.output_tokens

\* response.input_tokens + response.output_tokens
TokensOf(response) ==
  response.input_tokens + response.output_tokens

\* Variant of the token count of the AI route that counts the second call
\* only; C8 is tested against it.
TokensOfFinal(response, final_response) ==
  final_response.input_tokens + final_response.output_tokens

\* total_tokens after the second model call of the AI route
TokensOfBoth(response, final_response) ==
  response.input_tokens + response.output_tokens
    + final_response.input_tokens + final_response.output_tokens

\* Variant that executes the last tool call of the response; C9 is tested
\* against it.
LastToolCall(response) ==
  response.tool_calls[Len(response.tool_calls)]

\* `tool_call = response.tool_calls[0]`
FirstToolCall(response) ==
  response.tool_calls[1]

\* `skill_result = bus.get_result(request_id)` and the replacement of a
\* missing or empty result
SkillResultOf(got) ==
  IF got.found /\ got.value # <<>> THEN got.value
  ELSE << <<"error", <<"Skill returned no result">>>> >>

\* The prompt of the rule route; json.dumps(skill_result, indent=2)
format_prompt(clean_text, skill_name, skill_result) ==
  system \o <<"\n\nThe user asked: \"">> \o clean_text
    \o <<"\"\n\nYou called the ", skill_name, " tool and got this data:\n">>
    \o json_dumps(skill_result, TRUE)
    \o <<"\n\nFormat this data into a clear, helpful response for the user. ...">>

\* Variant that saves the turn whatever is_raw_response; C5 is tested
\* against it.
MemoryAlwaysSaved(store, is_raw_response, conversation_id, clean_text, assistant_text) ==
  save_turn(store, DEFAULT_TENANT, conversation_id, clean_text, assistant_text)

\* `if not is_raw_response: memory.save_turn(...)`
MemoryAfterTurn(store, is_raw_response, conversation_id, clean_text, assistant_text) ==
  IF ~is_raw_response
  THEN save_turn(store, DEFAULT_TENANT, conversation_id, clean_text, assistant_text)
  ELSE store

\* The tail of the try block: token count, history, response
Finish(st, assistant_text, total_tokens, route_type, is_raw_response) ==
  /\ stats' = [st EXCEPT !.total_tokens = @ + total_tokens]
  /\ memory' = MemoryAfterTurn(memory, is_raw_response, req.conversation_id,
                               req.clean_text, assistant_text)
  /\ sent' = Append(sent, HttpResponse(200, assistant_text, total_tokens,
                                       route_type, is_raw_response, <<>>))
  /\ pc' = "responded"

\* Variant of the exception handler that writes the error response and lets
\* the handler go on where it was; C14 is tested against it.
ChatErrorUnfinished(e) ==
  /\ stats' = [stats EXCEPT !.errors = @ + 1]
  /\ sent' = Append(sent, HttpResponse(500, <<>>, 0, "", FALSE, e))
  /\ Len(sent) < 3
  /\ UNCHANGED <<pc, memory>>

\* Variant of the exception handler that leaves stats["errors"] alone; C10
\* is tested against it.
ChatErrorUncounted(e) ==
  /\ sent' = Append(sent, HttpResponse(500, <<>>, 0, "", FALSE, e))
  /\ pc' = "responded"
  /\ UNCHANGED <<stats, memory>>

\* `except Exception as e` of _handle_chat
ChatError(e) ==
  /\ stats' = [stats EXCEPT !.errors = @ + 1]
  /\ sent' = Append(sent, HttpResponse(500, <<>>, 0, "", FALSE, e))
  /\ pc' = "responded"
  /\ UNCHANGED memory

\* The request is read and routed, up to the first call of model or bus.
HandleChat(body_text, conversation_id) ==
  /\ pc \in {"idle", "responded"}
  /\ handled < MaxMessages
  /\ handled' = handled + 1
  /\ before' = [memory |-> memory, stats |-> stats]
  /\ LET text == Strip(body_text)
         stripped == strip_raw_flag(text)
         clean_text == stripped.text
         is_raw == stripped.is_raw
         history == strip_metadata(get_conversation(memory, DEFAULT_TENANT,
                                                    conversation_id))
         r == [NoRequest EXCEPT !.text = text,
                                !.conversation_id = conversation_id,
                                !.clean_text = clean_text,
                                !.is_raw = is_raw,
                                !.history = history]
         m == match(rule_router, clean_text, enabled_skills)
         asked == [TraceEntry("is_conversational") EXCEPT !.text = clean_text]
         matched == [TraceEntry("match") EXCEPT !.text = clean_text]
     IN  IF text = <<>>
         THEN /\ req' = NoRequest
              /\ trace' = <<>>
              /\ sent' = <<[status |-> 400, text |-> <<>>, conversation_id |-> "",
                            tokens |-> 0, route |-> "", raw |-> FALSE,
                            error |-> <<"Empty message">>]>>
              /\ pc' = "responded"
              /\ UNCHANGED stats
         ELSE /\ sent' = <<>>
              /\ IF IsConversationalTurn(is_raw, clean_text)
                 THEN /\ stats' = [stats EXCEPT !.conversational = @ + 1]
                      /\ req' = [r EXCEPT !.path = "conversational",
                                          !.messages = UserTurn(history, clean_text)]
                      /\ trace' = IF is_raw THEN <<>> ELSE <<asked>>
                      /\ pc' = "chat_conversational"
                 ELSE IF m.found
                 THEN /\ req' = [r EXCEPT !.path = "rule", !.match = m]
                      /\ trace' = (IF is_raw THEN <<>> ELSE <<asked>>) \o <<matched>>
                      /\ pc' = "publish_rule"
                      /\ UNCHANGED stats
                 ELSE /\ stats' = [stats EXCEPT !.ai_routed = @ + 1]
                      /\ req' = [r EXCEPT !.path = "ai",
                                          !.tools = get_tools_for_tenant(Registry, enabled_skills),
                                          !.messages = UserTurn(history, clean_text)]
                      /\ trace' = (IF is_raw THEN <<>> ELSE <<asked>>) \o <<matched>>
                      /\ pc' = "chat_ai"
  /\ UNCHANGED <<enabled_skills, memory, pending_results>>

\* ai.chat(...) of the conversational route returns
ChatConversational(response) ==
  /\ pc = "chat_conversational"
  /\ trace' = Append(trace, [TraceEntry("chat") EXCEPT !.tools = <<>>,
                                                        !.messages = req.messages])
  /\ req' = [req EXCEPT !.response = response]
  /\ Finish(stats, TextOr(response.text, "Hey! How can I help?"),
            TokensOf(response), "conversational", FALSE)
  /\ UNCHANGED <<enabled_skills, pending_results, before, handled>>

\* Variant in which a model call that raises is made again instead of being
\* answered with the error; C4 is tested against it.
ChatRaisesAndRetries(e) ==
  /\ pc \in {"chat_conversational", "chat_format", "chat_ai", "chat_tool_result"}
  /\ Len(trace) < 6
  /\ trace' = Append(trace, [TraceEntry(IF pc = "chat_tool_result"
                                        THEN "chat_with_tool_result"
                                        ELSE "chat") EXCEPT !.raised = TRUE])
  /\ UNCHANGED <<enabled_skills, memory, pending_results, stats, pc, req, sent,
                 before, handled>>

\* a model call raises, on any route
ChatRaises(e) ==
  /\ pc \in {"chat_conversational", "chat_format", "chat_ai", "chat_tool_result"}
  /\ trace' = Append(trace,
       IF pc = "chat_tool_result"
       THEN [TraceEntry("chat_with_tool_result") EXCEPT
               !.raised = TRUE,
               !.tools = req.tools, !.messages = req.messages,
               !.tool_use_id = req.tool_call.tool_use_id,
               !.tool_result = req.skill_result]
       ELSE [TraceEntry("chat") EXCEPT
               !.raised = TRUE,
               !.tools = IF pc = "chat_ai" THEN req.tools ELSE <<>>,
               !.messages = req.messages])
  /\ ChatError(e)
  /\ UNCHANGED <<enabled_skills, pending_results, req, before, handled>>

\* The detail of bus.publish_skill_invocation(...)
InvocationDetail(skill_name, params, request_id) ==
  [tenant_id |-> DEFAULT_TENANT, skill_name |-> skill_name, params |-> params,
   session_id |-> req.conversation_id, request_id |-> request_id,
   reply_channel |-> "dashboard", reply_target |-> "dashboard-user"]

InvokeEntry(detail) ==
  [TraceEntry("invoke") EXCEPT !.skill_name = detail.skill_name,
                               !.params = detail.params,
                               !.request_id = detail.request_id]

\* The rule route publishes the matched skill, the bus runs it, and the
\* result is either returned raw or put into the prompt of the model call.
PublishRule(env) ==
  /\ pc = "publish_rule"
  /\ WorkerCan(req.match.skill_name, env)
  /\ LET request_id == "rule-" \o req.conversation_id
         detail == InvocationDetail(req.match.skill_name, req.match.params, request_id)
         got == get_result(publish(pending_results, Registry, detail, env), request_id)
         skill_result == SkillResultOf(got)
     IN  /\ pending_results' = got.pending
         /\ trace' = Append(trace, [InvokeEntry(detail) EXCEPT
                                      !.failed = SkillFailure(Registry, detail, env)])
         /\ IF IsRawResponse(req.is_raw, req.match.skill_name)
            THEN /\ req' = [req EXCEPT !.skill_result = skill_result]
                 /\ Finish([stats EXCEPT !.raw = @ + 1, !.rule_routed = @ + 1],
                           format_raw_json(skill_result), 0, "rule", TRUE)
            ELSE /\ stats' = [stats EXCEPT !.rule_routed = @ + 1]
                 /\ req' = [req EXCEPT
                      !.skill_result = skill_result,
                      !.messages = UserTurn(req.history,
                                            format_prompt(req.clean_text,
                                                          req.match.skill_name,
                                                          skill_result))]
                 /\ pc' = "chat_format"
                 /\ UNCHANGED <<memory, sent>>
  /\ UNCHANGED <<enabled_skills, before, handled>>

\* ai.chat(...) of the rule route returns the formatted answer
ChatFormat(response) ==
  /\ pc = "chat_format"
  /\ trace' = Append(trace, [TraceEntry("chat") EXCEPT !.tools = <<>>,
                                                        !.messages = req.messages])
  /\ req' = [req EXCEPT !.response = response]
  /\ Finish(stats, TextOr(response.text, "Got the data but couldn't format it."),
            TokensOf(response), "rule", FALSE)
  /\ UNCHANGED <<enabled_skills, pending_results, before, handled>>

\* ai.chat(...) of the AI route returns, with or without tool calls
ChatAI(response) ==
  /\ pc = "chat_ai"
  /\ trace' = Append(trace, [TraceEntry("chat") EXCEPT !.tools = req.tools,
                                                        !.messages = req.messages])
  /\ IF has_tool_use(response)
     THEN /\ req' = [req EXCEPT !.response = response,
                                !.tool_call = FirstToolCall(response)]
          /\ pc' = "publish_ai"
          /\ UNCHANGED <<stats, memory, sent>>
     ELSE /\ req' = [req EXCEPT !.response = response]
          /\ Finish(stats, TextOr(response.text, "I'm not sure how to help with that."),
                    TokensOf(response), "ai", FALSE)
  /\ UNCHANGED <<enabled_skills, pending_results, before, handled>>

\* messages + [{"role": "assistant", "content": [{"type": "tool_use", ...}]}]
messages_with_tool(messages, tool_call) ==
  messages \o
    <<[role |-> "assistant",
       content |-> <<"tool_use", tool_call.tool_use_id, tool_call.tool_name>>
                     \o json_dumps(tool_call.tool_params, FALSE)]>>

\* The AI route publishes the tool call the model chose, the bus runs it, and
\* the result is either returned raw or handed back to the model.
PublishAI(env) ==
  /\ pc = "publish_ai"
  /\ WorkerCan(req.tool_call.tool_name, env)
  /\ LET request_id == "ai-" \o req.conversation_id
         detail == InvocationDetail(req.tool_call.tool_name,
                                    req.tool_call.tool_params, request_id)
         got == get_result(publish(pending_results, Registry, detail, env), request_id)
         skill_result == SkillResultOf(got)
     IN  /\ pending_results' = got.pending
         /\ trace' = Append(trace, [InvokeEntry(detail) EXCEPT
                                      !.failed = SkillFailure(Registry, detail, env)])
         /\ IF IsRawResponse(req.is_raw, req.tool_call.tool_name)
            THEN /\ req' = [req EXCEPT !.skill_result = skill_result]
                 /\ Finish([stats EXCEPT !.raw = @ + 1],
                           format_raw_json(skill_result), TokensOf(req.response),
                           "ai", TRUE)
            ELSE /\ req' = [req EXCEPT
                      !.skill_result = skill_result,
                      !.messages = messages_with_tool(req.messages, req.tool_call)]
                 /\ pc' = "chat_tool_result"
                 /\ UNCHANGED <<stats, memory, sent>>
  /\ UNCHANGED <<enabled_skills, before, handled>>

\* ai.chat_with_tool_result(...) returns the narration of the tool result
ChatWithToolResult(final_response) ==
  /\ pc = "chat_tool_result"
  /\ trace' = Append(trace, [TraceEntry("chat_with_tool_result") EXCEPT
                               !.tools = req.tools,
                               !.messages = req.messages,
                               !.tool_use_id = req.tool_call.tool_use_id,
                               !.tool_result = req.skill_result])
  /\ req' = [req EXCEPT !.final_response = final_response]
  /\ Finish(stats, TextOr(final_response.text, "Got the data but couldn't format it."),
            TokensOfBoth(req.response, final_response), "ai", FALSE)
  /\ UNCHANGED <<enabled_skills, pending_results, before, handled>>

Next ==
  \/ \E body_text \in Messages, conversation_id \in ConversationIds :
       HandleChat(body_text, conversation_id)
  \/ \E response \in AIResponses : ChatConversational(response)
  \/ \E env \in WorkerEnvs : PublishRule(env)
  \/ \E response \in AIResponses : ChatFormat(response)
  \/ \E response \in AIResponses : ChatAI(response)
  \/ \E env \in WorkerEnvs : PublishAI(env)
  \/ \E final_response \in AIResponses : ChatWithToolResult(final_response)
  \/ \E e \in ModelErrors : ChatRaises(e)

Spec ==
  Init /\ [][Next]_vars

\* A step of the handler of the request in progress: a call to the model or
\* to the bus returns or raises
Step ==
  \/ \E response \in AIResponses : ChatConversational(response)
  \/ \E env \in WorkerEnvs : PublishRule(env)
  \/ \E response \in AIResponses : ChatFormat(response)
  \/ \E response \in AIResponses : ChatAI(response)
  \/ \E env \in WorkerEnvs : PublishAI(env)
  \/ \E final_response \in AIResponses : ChatWithToolResult(final_response)
  \/ \E e \in ModelErrors : ChatRaises(e)

\* _run_async blocks until the call has returned or raised, and do_POST runs
\* _handle_chat to its end: the request in progress always takes its next step.
FairSpec ==
  Spec /\ WF_vars(Step)

\* ------------------------------------------------------------------------
\* _handle_chat invoked for two messages at once.  HTTPServer in main serves
\* one request at a time, so Spec has none of these interleavings; they are
\* the ones a threading server gives the same handler and the same bus.  pc,
\* req and trace are per handler here; bus, store and counters are the
\* globals of the module.  Only the rule route is followed, from the request
\* to the skill result; what comes after does not touch the bus.
\* ------------------------------------------------------------------------

Handlers ==
  {"first", "second"}

\* The detail of bus.publish_skill_invocation(...) for a conversation
SkillInvocation(conversation_id, skill_name, params, request_id) ==
  [tenant_id |-> DEFAULT_TENANT, skill_name |-> skill_name, params |-> params,
   session_id |-> conversation_id, request_id |-> request_id,
   reply_channel |-> "dashboard", reply_target |-> "dashboard-user"]

ConcurrentInit ==
  /\ enabled_skills \in EnabledSkillLists
  /\ memory = [c \in Tenants \X ConversationIds |->
                 IF c[2] = DEFAULT_CONVERSATION THEN EarlierTurn ELSE <<>>]
  /\ pending_results = [r \in {} |-> <<>>]
  /\ stats = [rule_routed |-> 0, ai_routed |-> 0, conversational |-> 0,
              raw |-> 0, errors |-> 0, total_tokens |-> 0]
  /\ pc = [h \in Handlers |-> "idle"]
  /\ req = [h \in Handlers |-> NoRequest]
  /\ trace = [h \in Handlers |-> <<>>]
  /\ sent = [h \in Handlers |-> <<>>]
  /\ before = [memory |-> memory, stats |-> stats]
  /\ handled = 0

\* A handler reads its request and the matcher routes it to a skill
Receive(h, body_text, conversation_id) ==
  /\ pc[h] = "idle"
  /\ LET text == Strip(body_text)
         stripped == strip_raw_flag(text)
         m == match(rule_router, stripped.text, enabled_skills)
     IN  /\ text # <<>>
         /\ ~IsConversationalTurn(stripped.is_raw, stripped.text)
         /\ m.found
         /\ req' = [req EXCEPT ![h] =
              [NoRequest EXCEPT !.text = text,
                                !.conversation_id = conversation_id,
                                !.clean_text = stripped.text,
                                !.is_raw = stripped.is_raw,
                                !.path = "rule",
                                !.match = m]]
  /\ pc' = [pc EXCEPT ![h] = "publish_rule"]
  /\ handled' = handled + 1
  /\ UNCHANGED <<enabled_skills, memory, pending_results, stats, trace, sent, before>>

\* _run_async(bus.publish_skill_invocation(...)) of a handler runs the skill;
\* the trace keeps what this invocation stored
PublishOf(h, env) ==
  /\ pc[h] = "publish_rule"
  /\ WorkerCan(req[h].match.skill_name, env)
  /\ LET request_id == "rule-" \o req[h].conversation_id
         detail == SkillInvocation(req[h].conversation_id, req[h].match.skill_name,
                                   req[h].match.params, request_id)
         stored == publish(pending_results, Registry, detail, env)
     IN  /\ pending_results' = stored
         /\ trace' = [trace EXCEPT ![h] =
              Append(@, [InvokeEntry(detail) EXCEPT
                           !.failed = SkillFailure(Registry, detail, env),
                           !.tool_result = stored[request_id]])]
  /\ pc' = [pc EXCEPT ![h] = "get_result"]
  /\ UNCHANGED <<enabled_skills, memory, stats, req, sent, before, handled>>

\* bus.get_result(request_id) of a handler; the trace keeps what it returned
GetResultOf(h) ==
  /\ pc[h] = "get_result"
  /\ LET request_id == "rule-" \o req[h].conversation_id
         got == get_result(pending_results, request_id)
     IN  /\ pending_results' = got.pending
         /\ req' = [req EXCEPT ![h].skill_result = SkillResultOf(got)]
         /\ trace' = [trace EXCEPT ![h] =
              Append(@, [TraceEntry("get_result") EXCEPT
                           !.request_id = request_id,
                           !.failed = IF got.found THEN "" ELSE "none",
                           !.tool_result = got.value])]
  /\ pc' = [pc EXCEPT ![h] = "has_result"]
  /\ UNCHANGED <<enabled_skills, memory, stats, sent, before, handled>>

ConcurrentNext ==
  \/ \E h \in Handlers, body_text \in Messages, conversation_id \in ConversationIds :
       Receive(h, body_text, conversation_id)
  \/ \E h \in Handlers, env \in WorkerEnvs : PublishOf(h, env)
  \/ \E h \in Handlers : GetResultOf(h)

ConcurrentSpec ==
  ConcurrentInit /\ [][ConcurrentNext]_vars

\* ------------------------------------------------------------------------
\* The functions of rule_router.py applied to texts of their own, in the
\* order _handle_chat applies them: strip_raw_flag on the text, then match on
\* the cleaned text, for any list of enabled skills and any threshold the
\* router can be built with.  trace keeps each application and its result.
\* ------------------------------------------------------------------------

\* Pieces a text is put together from
MaxTokens == 3

\* Words a text is put together from
MaxWords == 2

RawTokens ==
  { <<"-","-","r","a","w">>,
    <<" ","-","-","R","A","W"," ">>,
    <<"a">>,
    <<"-","-","r">>,
    <<"a","w">> }

\* Each word is followed by a space
Words ==
  { <<"s","p","r","i","n","t"," ">>,
    <<"s","t","a","t","u","s"," ">>,
    <<"b","l","o","c","k","e","r","s"," ">>,
    <<"b","l","o","c","k","e","d"," ">>,
    <<"t","i","c","k","e","t"," ">>,
    <<"m","y"," ">>,
    <<"P","i","n","g"," ">>,
    <<"m","e","e","t","i","n","g"," ">>,
    <<"p","r","e","p"," ">> }

RECURSIVE TextsOf(_, _)

\* The texts made of at most n of the pieces
TextsOf(pieces, n) ==
  IF n = 0 THEN {<<>>}
  ELSE LET shorter == TextsOf(pieces, n - 1)
       IN  shorter \cup {t \o p : t \in shorter, p \in pieces}

\* Texts about the tickets of a user, with and without an e-mail address
MailTexts ==
  { <<"m","y"," ","j","i","r","a"," ","t","i","c","k","e","t","s">>,
    <<"m","y"," ","t","i","c","k","e","t"," ","x","@","y",".","z">>,
    <<"M","y"," ","T","i","c","k","e","t"," ","f","o","r"," ","X","@","Y",".","Z"," ">>,
    <<"s","p","r","i","n","t"," ","s","t","a","t","u","s"," ","x","@","y",".","z">>,
    <<"m","y"," ","t","i","c","k","e","t"," ","x","@","y">>,
    <<"m","y"," ","t","i","c","k","e","t"," ","@","y",".","z">>,
    <<"b","l","o","c","k","e","d"," ","t","i","c","k","e","t"," ","f","o","r"," ","m","e"," ","x","@","y",".","z">>,
    <<"m","y"," ","w","o","r","k"," ","x",".","y","+","z","@","a","-","b",".","c",".","d"," ","n","o","w">> }

\* Texts in which triggers and several detection patterns match
ScoreTexts ==
  { <<"s","p","r","i","n","t"," ","s","t","a","t","u","s"," ","m","y"," ","t","i","c","k","e","t">>,
    <<"i","s"," ","t","h","e"," ","s","p","r","i","n","t"," ","s","t","a","t","u","s"," ","o","n"," ","t","r","a","c","k"," ","o","r"," ","b","l","o","c","k","e","d">>,
    <<"b","l","o","c","k","e","r","s"," ","a","n","d"," ","s","p","r","i","n","t"," ","s","t","a","t","u","s">> }

RouterTexts ==
  TextsOf(RawTokens, MaxTokens) \cup TextsOf(Words, MaxWords) \cup MailTexts
    \cup ScoreTexts

\* confidence_threshold of RuleBasedRouter.__init__, in hundredths.  The
\* scores are kept exact here and are floats in _score_match; on the texts
\* above the two agree on every comparison with these thresholds.
Thresholds ==
  {0, 50, 70, 90}

RouterInit ==
  /\ enabled_skills = <<>>
  /\ memory = [c \in Tenants \X ConversationIds |-> <<>>]
  /\ pending_results = [r \in {} |-> <<>>]
  /\ stats = [rule_routed |-> 0, ai_routed |-> 0, conversational |-> 0,
              raw |-> 0, errors |-> 0, total_tokens |-> 0]
  /\ pc = "input"
  /\ \E text \in RouterTexts : req = [NoRequest EXCEPT !.text = text]
  /\ trace = <<>>
  /\ sent = <<>>
  /\ before = [memory |-> memory, stats |-> stats]
  /\ handled = 0

\* clean_text, is_raw = strip_raw_flag(text)
StripRawFlag ==
  /\ pc = "input"
  /\ LET stripped == strip_raw_flag(req.text)
     IN  /\ req' = [req EXCEPT !.clean_text = stripped.text,
                               !.is_raw = stripped.is_raw]
         /\ trace' = <<[fn |-> "strip_raw_flag", text |-> req.text,
                        result |-> stripped]>>
  /\ pc' = "stripped"
  /\ UNCHANGED <<enabled_skills, memory, pending_results, stats, sent, before,
                 handled>>

\* strip_raw_flag applied to the text it returned
StripRawFlagAgain ==
  /\ pc = "stripped"
  /\ trace' = Append(trace, [fn |-> "strip_raw_flag", text |-> req.clean_text,
                             result |-> strip_raw_flag(req.clean_text)])
  /\ pc' = "stripped_again"
  /\ UNCHANGED <<enabled_skills, memory, pending_results, stats, req, sent,
                 before, handled>>

\* RuleBasedRouter(skills, confidence_threshold).match(clean_text, enabled)
Match(enabled, confidence_threshold) ==
  /\ pc = "stripped"
  /\ enabled_skills' = enabled
  /\ LET m == match(RuleBasedRouter(Registry, confidence_threshold),
                    req.clean_text, enabled)
     IN  /\ req' = [req EXCEPT !.match = m]
         /\ trace' = Append(trace, [fn |-> "match", text |-> req.clean_text,
                                    confidence_threshold |-> confidence_threshold,
                                    result |-> m])
  /\ pc' = "matched"
  /\ UNCHANGED <<memory, pending_results, stats, sent, before, handled>>

RouterNext ==
  \/ StripRawFlag
  \/ StripRawFlagAgain
  \/ \E enabled \in EnabledSkillLists, confidence_threshold \in Thresholds :
       Match(enabled, confidence_threshold)

RouterSpec ==
  RouterInit /\ [][RouterNext]_vars

\* ------------------------------------------------------------------------
\* SQLiteConversationStore used by several tenants: save_turn,
\* clear_conversation and get_conversation in any order.  trace is the log
\* of the calls made, before.memory the table before the last call.
\* ------------------------------------------------------------------------

\* Calls made on the store in one run
MaxCalls == 3

StoreTenants ==
  {"tenant-a", "tenant-b"}

\* The user messages saved; any tenant can save any of them
UserMessages ==
  { <<"hello from A">>, <<"hello from B">> }

StoreCall(op, tenant_id, conversation_id, user_message, result) ==
  [op |-> op, tenant_id |-> tenant_id, conversation_id |-> conversation_id,
   user_message |-> user_message, result |-> result]

StoreInit ==
  /\ enabled_skills = <<>>
  /\ memory = [c \in StoreTenants \X ConversationIds |-> <<>>]
  /\ pending_results = [r \in {} |-> <<>>]
  /\ stats = [rule_routed |-> 0, ai_routed |-> 0, conversational |-> 0,
              raw |-> 0, errors |-> 0, total_tokens |-> 0]
  /\ pc = "store"
  /\ req = NoRequest
  /\ trace = <<>>
  /\ sent = <<>>
  /\ before = [memory |-> memory, stats |-> stats]
  /\ handled = 0

\* await memory.save_turn(tenant_id, conversation_id, user_message, "reply")
SaveTurn(tenant_id, conversation_id, user_message) ==
  /\ handled < MaxCalls
  /\ handled' = handled + 1
  /\ before' = [before EXCEPT !.memory = memory]
  /\ memory' = save_turn(memory, tenant_id, conversation_id, user_message,
                         <<"reply">>)
  /\ trace' = Append(trace, StoreCall("save_turn", tenant_id, conversation_id,
                                      user_message, <<>>))
  /\ UNCHANGED <<enabled_skills, pending_results, stats, pc, req, sent>>

\* await memory.clear_conversation(tenant_id, conversation_id)
ClearConversation(tenant_id, conversation_id) ==
  /\ handled < MaxCalls
  /\ handled' = handled + 1
  /\ before' = [before EXCEPT !.memory = memory]
  /\ memory' = clear_conversation(memory, tenant_id, conversation_id)
  /\ trace' = Append(trace, StoreCall("clear_conversation", tenant_id,
                                      conversation_id, <<>>, <<>>))
  /\ UNCHANGED <<enabled_skills, pending_results, stats, pc, req, sent>>

\* await memory.get_conversation(tenant_id, conversation_id)
GetConversation(tenant_id, conversation_id) ==
  /\ handled < MaxCalls
  /\ handled' = handled + 1
  /\ before' = [before EXCEPT !.memory = memory]
  /\ trace' = Append(trace, StoreCall("get_conversation", tenant_id,
                                      conversation_id, <<>>,
                                      get_conversation(memory, tenant_id,
                                                       conversation_id)))
  /\ UNCHANGED <<enabled_skills, memory, pending_results, stats, pc, req, sent>>

StoreNext ==
  \/ \E tenant_id \in StoreTenants, conversation_id \in ConversationIds,
        user_message \in UserMessages :
       SaveTurn(tenant_id, conversation_id, user_message)
  \/ \E tenant_id \in StoreTenants, conversation_id \in ConversationIds :
       ClearConversation(tenant_id, conversation_id)
  \/ \E tenant_id \in StoreTenants, conversation_id \in ConversationIds :
       GetConversation(tenant_id, conversation_id)

StoreSpec ==
  StoreInit /\ [][StoreNext]_vars

\* ------------------------------------------------------------------------
\* adapters/aws/auth_middleware.py: extract_auth on the headers of a
\* request.  A header value is a str: "Bearer " and the dots of the token
\* are characters, each segment of the token is one element.  A JSON value
\* is a record of its type t and its content s.
\* ------------------------------------------------------------------------

\* The payload segments of the tokens, with what
\* json.loads(base64.urlsafe_b64decode(payload_b64)) gives for each: the
\* exception it raises, or the value and whether it is a dict

PayloadSegments ==
  { "eyJzdWIiOiAidXNlci0xMjMiLCAiY3VzdG9tOnRlbmFudF9pZCI6ICJteS10ZW5hbnQiLCAiZW1haWwiOiAidXNlckBleGFtcGxlLmNvbSJ9",
    "eyJzdWIiOiAidXNlci0xIn0",
    "eyJjdXN0b206dGVuYW50X2lkIjogIm15LXRlbmFudCJ9",
    "e30",
    "eyJzdWIiOiAiIiwgImN1c3RvbTp0ZW5hbnRfaWQiOiAibXktdGVuYW50In0",
    "eyJzdWIiOiAidXNlci0xIiwgImN1c3RvbTp0ZW5hbnRfaWQiOiAiIn0",
    "eyJzdWIiOiAidXNlci0xIiwgImN1c3RvbTp0ZW5hbnRfaWQiOiAidC0yIn0",
    "eyJzdWIiOiAxMjM0NSwgImN1c3RvbTp0ZW5hbnRfaWQiOiAidC0yIn0",
    "eyJzdWIiOiBbInUiXSwgImN1c3RvbTp0ZW5hbnRfaWQiOiAidC0yIn0",
    "WyJzdWIiXQ",
    "eyJzdWIiOiAidXNlci0xIiwgImN1c3RvbTp0ZW5hbnRfaWQiOiAwfQ",
    "eyJzdWIiOiBudWxsLCAiY3VzdG9tOnRlbmFudF9pZCI6ICJ0LTIifQ",
    "bm90IGpzb24",
    "__4",
    "abcde",
    "" }

DecodedPayload ==
  [segment \in PayloadSegments |->
     IF segment = "eyJzdWIiOiAidXNlci0xMjMiLCAiY3VzdG9tOnRlbmFudF9pZCI6ICJteS10ZW5hbnQiLCAiZW1haWwiOiAidXNlckBleGFtcGxlLmNvbSJ9" THEN
       [error |-> "", dict |-> TRUE, items |-> <<<<"sub", [t |-> "str", s |-> <<"user-123">>]>>, <<"custom:tenant_id", [t |-> "str", s |-> <<"my-tenant">>]>>, <<"email", [t |-> "str", s |-> <<"user@example.com">>]>>>>]
     ELSE IF segment = "eyJzdWIiOiAidXNlci0xIn0" THEN
       [error |-> "", dict |-> TRUE, items |-> <<<<"sub", [t |-> "str", s |-> <<"user-1">>]>>>>]
     ELSE IF segment = "eyJjdXN0b206dGVuYW50X2lkIjogIm15LXRlbmFudCJ9" THEN
       [error |-> "", dict |-> TRUE, items |-> <<<<"custom:tenant_id", [t |-> "str", s |-> <<"my-tenant">>]>>>>]
     ELSE IF segment = "e30" THEN
       [error |-> "", dict |-> TRUE, items |-> <<>>]
     ELSE IF segment = "eyJzdWIiOiAiIiwgImN1c3RvbTp0ZW5hbnRfaWQiOiAibXktdGVuYW50In0" THEN
       [error |-> "", dict |-> TRUE, items |-> <<<<"sub", [t |-> "str", s |-> <<>>]>>, <<"custom:tenant_id", [t |-> "str", s |-> <<"my-tenant">>]>>>>]
     ELSE IF segment = "eyJzdWIiOiAidXNlci0xIiwgImN1c3RvbTp0ZW5hbnRfaWQiOiAiIn0" THEN
       [error |-> "", dict |-> TRUE, items |-> <<<<"sub", [t |-> "str", s |-> <<"user-1">>]>>, <<"custom:tenant_id", [t |-> "str", s |-> <<>>]>>>>]
     ELSE IF segment = "eyJzdWIiOiAidXNlci0xIiwgImN1c3RvbTp0ZW5hbnRfaWQiOiAidC0yIn0" THEN
       [error |-> "", dict |-> TRUE, items |-> <<<<"sub", [t |-> "str", s |-> <<"user-1">>]>>, <<"custom:tenant_id", [t |-> "str", s |-> <<"t-2">>]>>>>]
     ELSE IF segment = "eyJzdWIiOiAxMjM0NSwgImN1c3RvbTp0ZW5hbnRfaWQiOiAidC0yIn0" THEN
       [error |-> "", dict |-> TRUE, items |-> <<<<"sub", [t |-> "int", s |-> <<"12345">>]>>, <<"custom:tenant_id", [t |-> "str", s |-> <<"t-2">>]>>>>]
     ELSE IF segment = "eyJzdWIiOiBbInUiXSwgImN1c3RvbTp0ZW5hbnRfaWQiOiAidC0yIn0" THEN
       [error |-> "", dict |-> TRUE, items |-> <<<<"sub", [t |-> "list", s |-> <<"u">>]>>, <<"custom:tenant_id", [t |-> "str", s |-> <<"t-2">>]>>>>]
     ELSE IF segment = "WyJzdWIiXQ" THEN
       [error |-> "", dict |-> FALSE, items |-> <<>>]
     ELSE IF segment = "eyJzdWIiOiAidXNlci0xIiwgImN1c3RvbTp0ZW5hbnRfaWQiOiAwfQ" THEN
       [error |-> "", dict |-> TRUE, items |-> <<<<"sub", [t |-> "str", s |-> <<"user-1">>]>>, <<"custom:tenant_id", [t |-> "int", s |-> <<"0">>]>>>>]
     ELSE IF segment = "eyJzdWIiOiBudWxsLCAiY3VzdG9tOnRlbmFudF9pZCI6ICJ0LTIifQ" THEN
       [error |-> "", dict |-> TRUE, items |-> <<<<"sub", [t |-> "null", s |-> <<>>]>>, <<"custom:tenant_id", [t |-> "str", s |-> <<"t-2">>]>>>>]
     ELSE IF segment = "bm90IGpzb24" THEN
       [error |-> "JSONDecodeError", dict |-> FALSE, items |-> <<>>]
     ELSE IF segment = "__4" THEN
       [error |-> "JSONDecodeError", dict |-> FALSE, items |-> <<>>]
     ELSE IF segment = "abcde" THEN
       [error |-> "binascii.Error", dict |-> FALSE, items |-> <<>>]
     ELSE
       [error |-> "JSONDecodeError", dict |-> FALSE, items |-> <<>>]]

JWT_HEADER ==
  "eyJhbGciOiAiUlMyNTYiLCAidHlwIjogIkpXVCJ9"

JWT_SIGNATURE ==
  "ZmFrZXNpZw"

JsonStr(s) ==
  [t |-> "str", s |-> s]

\* `not v` is false
Truthy(v) ==
  IF v.t = "null" THEN FALSE
  ELSE IF v.t = "int" THEN v.s # <<"0">>
  ELSE IF v.t = "bool" THEN v.s = <<"True">>
  ELSE v.s # <<>>

\* v[:8] does not raise TypeError
Sliceable(v) ==
  v.t \in {"str", "list"}

\* dict.get(key, default)
DictGet(items, key, default) ==
  LET at == {k \in 1..Len(items) : items[k][1] = key}
  IN  IF at = {} THEN default ELSE items[CHOOSE k \in at : TRUE][2]

\* str.startswith
StartsWith(s, prefix) ==
  Len(s) >= Len(prefix) /\ SubSeq(s, 1, Len(prefix)) = prefix

RECURSIVE Split(_, _)

\* str.split(sep) for a separator of one character
Split(s, sep) ==
  LET at == {k \in 1..Len(s) : s[k] = sep}
  IN  IF at = {} THEN <<s>>
      ELSE LET first == CHOOSE k \in at : \A j \in at : k <= j
           IN  <<SubSeq(s, 1, first - 1)>> \o Split(SubSeq(s, first + 1, Len(s)), sep)

\* raise exception(message, status)
Raise(exception, status, message) ==
  [raised |-> exception, status |-> status, message |-> message,
   user_id |-> JsonStr(<<>>), tenant_id |-> JsonStr(<<>>), email |-> JsonStr(<<>>)]

\* return AuthContext(user_id=user_id, tenant_id=tenant_id, email=email)
AuthContext(user_id, tenant_id, email) ==
  [raised |-> "", status |-> 0, message |-> "",
   user_id |-> user_id, tenant_id |-> tenant_id, email |-> email]

Bearer ==
  <<"B","e","a","r","e","r"," ">>

\* The try block of extract_auth, before its except clauses
decode_claims(token) ==
  LET parts == Split(token, ".")
  IN  IF Len(parts) # 3 THEN Raise("AuthError", 401, "Malformed JWT")
      ELSE LET payload_b64 == IF parts[2] = <<>> THEN "" ELSE parts[2][1]
               decoded == DecodedPayload[payload_b64]
               user_id == DictGet(decoded.items, "sub", JsonStr(<<>>))
               tenant_id == DictGet(decoded.items, "custom:tenant_id", JsonStr(<<>>))
               email == DictGet(decoded.items, "email", JsonStr(<<>>))
           IN  IF decoded.error # "" THEN Raise(decoded.error, 0, "")
               ELSE IF ~decoded.dict
               THEN \* payload.get
                    Raise("AttributeError", 0, "")
               ELSE IF ~Truthy(user_id)
               THEN Raise("AuthError", 401, "JWT missing 'sub' claim")
               ELSE IF ~Truthy(tenant_id)
               THEN Raise("AuthError", 403, "JWT missing 'custom:tenant_id' claim")
               ELSE IF ~Sliceable(user_id)
               THEN \* user_id[:8] in logger.info
                    Raise("TypeError", 0, "")
               ELSE AuthContext(user_id, tenant_id, email)

\* Variant of extract_auth without `except Exception`; C25 is tested
\* against it.
extract_auth_uncaught(headers) ==
  LET auth_header == DictGet(headers, "Authorization", <<>>)
  IN  IF ~StartsWith(auth_header, Bearer)
      THEN Raise("AuthError", 401, "Missing or invalid Authorization header")
      ELSE decode_claims(SubSeq(auth_header, 8, Len(auth_header)))

extract_auth(headers) ==
  LET auth_header == DictGet(headers, "Authorization", <<>>)
  IN  IF ~StartsWith(auth_header, Bearer)
      THEN Raise("AuthError", 401, "Missing or invalid Authorization header")
      ELSE LET r == decode_claims(SubSeq(auth_header, 8, Len(auth_header)))
           IN  IF r.raised \in {"", "AuthError"} THEN r
               ELSE Raise("AuthError", 401, "Invalid token")

\* What stands before the token in an Authorization header
Schemes ==
  { Bearer,
    <<"b","e","a","r","e","r"," ">>,
    <<"B","e","a","r","e","r">>,
    <<"B","a","s","i","c"," ">> }

\* Tokens of one to four segments around each payload segment
Tokens ==
  UNION { { <<JWT_HEADER, ".", p, ".", JWT_SIGNATURE>>,
            <<JWT_HEADER, ".", p>>,
            <<JWT_HEADER, ".", p, ".", JWT_SIGNATURE, ".", JWT_SIGNATURE>>,
            <<p>> } : p \in PayloadSegments \ {""} }
  \cup { <<JWT_HEADER, ".", ".", JWT_SIGNATURE>>, <<JWT_HEADER, ".">>,
         <<JWT_HEADER, ".", ".", JWT_SIGNATURE, ".", JWT_SIGNATURE>>, <<>> }

\* The headers of a request, with and without an Authorization header
AuthHeaders ==
  { << <<"Content-Type", <<"application/json">>>> >> }
  \cup { << <<"Content-Type", <<"application/json">>>>,
            <<"Authorization", scheme \o token>> >> :
           scheme \in Schemes, token \in Tokens }

AuthInit ==
  /\ enabled_skills = <<>>
  /\ memory = [c \in Tenants \X ConversationIds |-> <<>>]
  /\ pending_results = [r \in {} |-> <<>>]
  /\ stats = [rule_routed |-> 0, ai_routed |-> 0, conversational |-> 0,
              raw |-> 0, errors |-> 0, total_tokens |-> 0]
  /\ pc = "request"
  /\ \E headers \in AuthHeaders : req = [headers |-> headers]
  /\ trace = <<>>
  /\ sent = <<>>
  /\ before = [memory |-> memory, stats |-> stats]
  /\ handled = 0

\* auth = extract_auth(headers)
ExtractAuth ==
  /\ pc = "request"
  /\ trace' = <<[fn |-> "extract_auth", headers |-> req.headers,
                 result |-> extract_auth(req.headers)]>>
  /\ pc' = "done"
  /\ UNCHANGED <<enabled_skills, memory, pending_results, stats, req, sent,
                 before, handled>>

AuthNext ==
  ExtractAuth

AuthSpec ==
  AuthInit /\ [][AuthNext]_vars

\* ------------------------------------------------------------------------
\* RuleBasedRouter built from any registry the loader can produce: the
\* triggers of a skill are the strings of its skill.yaml, which
\* _build_rule_sets lower-cases and strips and does not validate.
\* ------------------------------------------------------------------------

\* A skill whose skill.yaml lists a trigger of one space
BlankTriggerSkill ==
  [name |-> "email_triage",
   requires_integration |-> "",
   supports_raw |-> FALSE,
   triggers |-> << <<"i","n","b","o","x">>, <<" ">> >>]

\* A skill whose skill.yaml lists no trigger
NoTriggerSkill ==
  [name |-> "email_triage",
   requires_integration |-> "",
   supports_raw |-> FALSE,
   triggers |-> <<>>]

Registries ==
  { Registry,
    Registry \o <<NoTriggerSkill>>,
    Registry \o <<BlankTriggerSkill>>,
    <<BlankTriggerSkill>> \o Registry }

\* Texts of no character, of whitespace, and of words
RegistryTexts ==
  { <<>>, <<" ">>, <<" ", "\t", "\n">>, <<"p","i","n","g">>,
    <<"m","y"," ","i","n","b","o","x">> }

RegistryInit ==
  /\ enabled_skills = <<>>
  /\ memory = [c \in Tenants \X ConversationIds |-> <<>>]
  /\ pending_results = [r \in {} |-> <<>>]
  /\ stats = [rule_routed |-> 0, ai_routed |-> 0, conversational |-> 0,
              raw |-> 0, errors |-> 0, total_tokens |-> 0]
  /\ pc = "built"
  /\ \E skills \in Registries, text \in RegistryTexts :
       req = [skills |-> skills, text |-> text]
  /\ trace = <<>>
  /\ sent = <<>>
  /\ before = [memory |-> memory, stats |-> stats]
  /\ handled = 0

\* RuleBasedRouter(skills, confidence_threshold).match(text, enabled)
MatchOf(enabled, confidence_threshold) ==
  /\ pc = "built"
  /\ enabled_skills' = enabled
  /\ LET self == RuleBasedRouter(req.skills, confidence_threshold)
     IN  trace' = <<[fn |-> "match", text |-> req.text,
                     rule_sets |-> self.rule_sets,
                     confidence_threshold |-> confidence_threshold,
                     result |-> match(self, req.text, enabled)]>>
  /\ pc' = "matched"
  /\ UNCHANGED <<memory, pending_results, stats, req, sent, before, handled>>

RegistryNext ==
  \E enabled \in EnabledSkillLists, confidence_threshold \in Thresholds :
    MatchOf(enabled, confidence_threshold)

RegistrySpec ==
  RegistryInit /\ [][RegistryNext]_vars

\* ------------------------------------------------------------------------
\* DirectBus on its own: publish and get_result called in any order for
\* the request ids the handler uses.  trace is the log of the calls made.
\* ------------------------------------------------------------------------

\* request_id = f"rule-{conversation_id}" and f"ai-{conversation_id}" of
\* the default conversation
RequestIds ==
  { "rule-" \o DEFAULT_CONVERSATION, "ai-" \o DEFAULT_CONVERSATION }

\* The skills an invocation can name; email_triage is not registered
InvokedSkills ==
  {"ping", "sprint_status", "meeting_prep", "email_triage"}

\* The detail types of the events published on the bus
DetailTypes ==
  {"skill.invoke", "skill.result"}

BusCall(op, detail_type, skill_name, request_id, found, result) ==
  [op |-> op, detail_type |-> detail_type, skill_name |-> skill_name,
   request_id |-> request_id, found |-> found, result |-> result]

BusInit ==
  /\ enabled_skills = <<>>
  /\ memory = [c \in {DEFAULT_TENANT} \X ConversationIds |-> <<>>]
  /\ pending_results = [r \in {} |-> <<>>]
  /\ stats = [rule_routed |-> 0, ai_routed |-> 0, conversational |-> 0,
              raw |-> 0, errors |-> 0, total_tokens |-> 0]
  /\ pc = "bus"
  /\ req = NoRequest
  /\ trace = <<>>
  /\ sent = <<>>
  /\ before = [memory |-> memory, stats |-> stats]
  /\ handled = 0

\* await bus.publish(source, detail_type, detail): an event that is not a
\* skill.invoke is ignored, a skill.invoke runs the worker and stores what
\* it returned, or the error, under the request id
BusPublish(detail_type, skill_name, request_id, env) ==
  /\ handled < MaxCalls
  /\ WorkerCan(skill_name, env)
  /\ handled' = handled + 1
  /\ LET detail == [tenant_id |-> DEFAULT_TENANT, skill_name |-> skill_name,
                    params |-> <<>>, session_id |-> "", request_id |-> request_id,
                    reply_channel |-> "dashboard",
                    reply_target |-> "dashboard-user"]
     IN  IF detail_type # "skill.invoke"
         THEN /\ pending_results' = pending_results
              /\ trace' = Append(trace, BusCall("publish", detail_type, "",
                                                request_id, FALSE, <<>>))
         ELSE /\ pending_results' = publish(pending_results, Registry, detail, env)
              /\ trace' = Append(trace, BusCall("publish", detail_type, skill_name,
                                                request_id, TRUE,
                                                pending_results'[request_id]))
  /\ UNCHANGED <<enabled_skills, memory, stats, pc, req, sent, before>>

\* bus.get_result(request_id)
BusGetResult(request_id) ==
  /\ handled < MaxCalls
  /\ handled' = handled + 1
  /\ LET got == get_result(pending_results, request_id)
     IN  /\ pending_results' = got.pending
         /\ trace' = Append(trace, BusCall("get_result", "", "", request_id,
                                           got.found, got.value))
  /\ UNCHANGED <<enabled_skills, memory, stats, pc, req, sent, before>>

BusNext ==
  \/ \E detail_type \in DetailTypes, skill_name \in InvokedSkills,
        request_id \in RequestIds, env \in WorkerEnvs :
       BusPublish(detail_type, skill_name, request_id, env)
  \/ \E request_id \in RequestIds : BusGetResult(request_id)

BusSpec ==
  BusInit /\ [][BusNext]_vars
\* ------------------------------------------------------------------------
\* Properties of the message-handling flow
\* ------------------------------------------------------------------------

\* The model calls the request in progress has made, returned or raised
ModelCalls ==
  SelectSeq(trace, LAMBDA e : e.kind \in {"chat", "chat_with_tool_result"})

\* The skill invocations the request in progress has published
Invocations ==
  SelectSeq(trace, LAMBDA e : e.kind = "invoke")

\* The kinds of the calls to model and bus, in the order they were made
CallKinds ==
  LET calls == SelectSeq(trace, LAMBDA e : e.kind \in
                           {"chat", "chat_with_tool_result", "invoke"})
  IN  [k \in 1..Len(calls) |-> calls[k].kind]

\* rule_router.match was asked about the request in progress
MatcherRan ==
  \E k \in 1..Len(trace) : trace[k].kind = "match"

\* The request in progress was answered with a reply
Replied ==
  pc = "responded" /\ Len(sent) = 1 /\ sent[1].status = 200

\* What the conversation of the request held when the request arrived
HistoryBefore ==
  before.memory[<<DEFAULT_TENANT, req.conversation_id>>]

\* The rule sets of skills that are not enabled and whose score on the
\* clean text is at least c (in units of 1 / ScoreDen)
DisabledScoring(c) ==
  LET text_lower == Strip(Lower(req.clean_text))
  IN  {k \in 1..Len(rule_router.rule_sets) :
         /\ ~InList(rule_router.rule_sets[k].skill_name, enabled_skills)
         /\ score_match(text_lower, rule_router.rule_sets[k]) > 0
         /\ score_match(text_lower, rule_router.rule_sets[k]) >= c}

\* C1: match never returns a RouteMatch for a skill that is absent from the
\* enabled-skills list it is given, however well that skill's triggers and
\* patterns score on the text.
C1_MatchOnlyEnabledSkills ==
  req.match.found => InList(req.match.skill_name, enabled_skills)

\* match returned an enabled skill although a skill that is not enabled
\* scored at least as high on the same text
C1_Witness ==
  /\ MatcherRan
  /\ req.match.found
  /\ DisabledScoring(req.match.confidence) # {}

\* C2: a message that carries the raw marker never takes the conversational
\* route, even if its cleaned text is a greeting: the route is taken only if
\* is_raw is false and is_conversational(clean_text) is true, and a message
\* with the marker goes on to the matcher.
C2_RawNeverConversational ==
  /\ req.path = "conversational"
       => ~req.is_raw /\ is_conversational(req.clean_text)
  /\ req.path # "" /\ req.is_raw
       => req.path \in {"rule", "ai"} /\ MatcherRan

\* a greeting with the raw marker was routed
C2_Witness ==
  /\ req.path # ""
  /\ req.is_raw
  /\ is_conversational(req.clean_text)

\* C3: on the conversational route exactly one model call is made, with an
\* empty tool list and with the conversation history followed by the cleaned
\* user message; the matcher is not run and no skill is invoked.
C3_ConversationalOneModelCall ==
  req.path = "conversational" =>
    /\ ~MatcherRan
    /\ Invocations = <<>>
    /\ Len(ModelCalls) = (IF pc = "responded" THEN 1 ELSE 0)
    /\ \A k \in 1..Len(ModelCalls) :
         /\ ModelCalls[k].kind = "chat"
         /\ ModelCalls[k].tools = <<>>
         /\ ModelCalls[k].messages =
              strip_metadata(get_conversation(before.memory, DEFAULT_TENANT,
                                              req.conversation_id))
                \o <<[role |-> "user", content |-> req.clean_text]>>

\* a greeting in a conversation that has history was answered by the model
C3_Witness ==
  /\ req.path = "conversational"
  /\ Replied
  /\ HistoryBefore # <<>>
  /\ Len(ModelCalls) = 1

\* C4: one message causes at most two model calls and at most one skill
\* invocation, made one after another: a first model call only on the AI
\* route, the invocation, then the one model call that takes its result.
C4_AtMostTwoModelCallsOneInvocation ==
  /\ Len(ModelCalls) <= 2
  /\ Len(Invocations) <= 1
  /\ CallKinds \in
       { <<>>, <<"chat">>, <<"invoke">>, <<"invoke", "chat">>,
         <<"chat", "invoke">>, <<"chat", "invoke", "chat_with_tool_result">> }

\* a message was answered after two model calls and one invocation
C4_Witness ==
  /\ Replied
  /\ Len(ModelCalls) = 2
  /\ Len(Invocations) = 1

\* C5: a message answered with a reply that is not raw skill output adds
\* exactly one pair to its conversation, the cleaned user text and the reply
\* text, and nothing else changes in the store; a message answered with raw
\* skill output adds nothing; a message with the raw marker that the model
\* answered is stored with the marker stripped.
C5_HistoryOnePairPerNonRawReply ==
  Replied =>
    /\ ~sent[1].raw =>
         /\ memory = [before.memory EXCEPT ![<<DEFAULT_TENANT, req.conversation_id>>] =
              @ \o << [role |-> "user", content |-> strip_raw_flag(req.text).text],
                      [role |-> "assistant", content |-> sent[1].text] >>]
         /\ ~Search(RAW_FLAG_PATTERN, memory[<<DEFAULT_TENANT, req.conversation_id>>]
                                        [Len(HistoryBefore) + 1].content)
    /\ sent[1].raw =>
         /\ memory = before.memory
         /\ sent[1].text = format_raw_json(req.skill_result)

\* a message with the raw marker was answered by the model, in a conversation
\* that has history
C5_Witness ==
  /\ Replied
  /\ req.is_raw
  /\ ~sent[1].raw
  /\ ModelCalls # <<>>
  /\ HistoryBefore # <<>>
  /\ memory # before.memory

\* C6: when the matcher routes a message with the raw marker to a skill that
\* supports raw output, no model call is made, the reply is the serialized
\* result of the skill, the reported token cost is 0, the total-token
\* counter is not changed and the turn is not saved.
C6_RuleRawNoModelCall ==
  req.path = "rule" /\ req.is_raw /\ supports_raw(rule_router, req.match.skill_name) =>
    /\ ModelCalls = <<>>
    /\ memory = before.memory
    /\ stats.total_tokens = before.stats.total_tokens
    /\ pc \in {"publish_rule", "responded"}
    /\ pc = "responded" =>
         /\ Len(sent) = 1
         /\ sent[1].status = 200
         /\ sent[1].text = format_raw_json(req.skill_result)
         /\ sent[1].tokens = 0
         /\ Len(Invocations) = 1
         /\ Invocations[1].skill_name = req.match.skill_name

\* a rule-matched raw request was answered with the data of the skill
C6_Witness ==
  /\ req.path = "rule"
  /\ req.is_raw
  /\ supports_raw(rule_router, req.match.skill_name)
  /\ Replied
  /\ \E k \in 1..Len(req.skill_result) : req.skill_result[k][1] = "skill"

\* C7: when the model routes a message with the raw marker to a tool whose
\* skill supports raw output, exactly one model call is made, the reply is
\* the serialized result of the skill, the turn is not saved, and the
\* reported token cost is the input plus output tokens of that call.
C7_AiRawOneModelCall ==
  /\ req.path = "ai"
  /\ has_tool_use(req.response)
  /\ req.is_raw
  /\ supports_raw(rule_router, req.response.tool_calls[1].tool_name)
  /\ pc # "publish_ai"
  =>
    /\ Len(ModelCalls) = 1
    /\ ModelCalls[1].kind = "chat"
    /\ Replied
    /\ sent[1].text = format_raw_json(req.skill_result)
    /\ sent[1].tokens = req.response.input_tokens + req.response.output_tokens
    /\ stats.total_tokens = before.stats.total_tokens + sent[1].tokens
    /\ memory = before.memory

\* a raw request the model routed to a skill that supports raw output was
\* answered
C7_Witness ==
  /\ req.path = "ai"
  /\ has_tool_use(req.response)
  /\ req.is_raw
  /\ supports_raw(rule_router, req.response.tool_calls[1].tool_name)
  /\ Replied

\* The tool call of the model-routed request is answered raw
AnsweredRaw ==
  req.is_raw /\ supports_raw(rule_router, req.response.tool_calls[1].tool_name)

\* C8: when the model requests a tool and the reply is not raw, a second
\* model call is made that carries the result of the skill and the
\* tool_use_id of the executed tool call; the reply is the text of that
\* second call, or the fallback text if it has none, and the reported token
\* cost is the sum of both calls.
C8_ToolResultGoesBackToModel ==
  /\ req.path = "ai"
  /\ has_tool_use(req.response)
  /\ ~AnsweredRaw
  /\ pc = "responded"
  =>
    /\ Len(ModelCalls) = 2
    /\ Len(Invocations) = 1
    /\ trace[Len(trace)].kind = "chat_with_tool_result"
    /\ trace[Len(trace)].tool_result = req.skill_result
    /\ trace[Len(trace)].tool_use_id = req.response.tool_calls[1].tool_use_id
    /\ Len(sent) = 1
    /\ sent[1].status = 200 =>
         /\ sent[1].text = (IF req.final_response.text # <<>>
                            THEN req.final_response.text
                            ELSE <<"Got the data but couldn't format it.">>)
         /\ sent[1].tokens =
              req.response.input_tokens + req.response.output_tokens
                + req.final_response.input_tokens
                + req.final_response.output_tokens
         /\ ~sent[1].raw

\* a tool call was executed and the second model call narrated its result
C8_Witness ==
  /\ req.path = "ai"
  /\ has_tool_use(req.response)
  /\ ~AnsweredRaw
  /\ Replied
  /\ req.final_response.text # <<>>

\* C9: when the response of the model holds one or more tool calls, exactly
\* one skill is invoked, with the skill name and the parameters of the first
\* tool call; the other tool calls are ignored and cause no model call.
C9_OnlyFirstToolCallExecuted ==
  req.path = "ai" /\ has_tool_use(req.response) /\ pc # "publish_ai" =>
    /\ Len(Invocations) = 1
    /\ Invocations[1].skill_name = req.response.tool_calls[1].tool_name
    /\ Invocations[1].params = req.response.tool_calls[1].tool_params
    /\ Len(ModelCalls) <= 2
    /\ \A k \in 1..Len(ModelCalls) :
         ModelCalls[k].kind = "chat_with_tool_result" =>
           ModelCalls[k].tool_use_id = req.response.tool_calls[1].tool_use_id

\* a response with two tool calls was handled to the end
C9_Witness ==
  /\ req.path = "ai"
  /\ Len(req.response.tool_calls) = 2
  /\ pc = "responded"
  /\ Len(Invocations) = 1

\* C10: when a model call raises, on any route, the message gets exactly one
\* response, an error response, the error counter goes up by one, and the
\* conversation history is what it was before the message.
C10_ModelErrorOneErrorResponse ==
  (\E k \in 1..Len(trace) : trace[k].raised) =>
    /\ trace[Len(trace)].raised
    /\ \A k \in 1..(Len(trace) - 1) : ~trace[k].raised
    /\ pc = "responded"
    /\ Len(sent) = 1
    /\ sent[1].status = 500
    /\ sent[1].error # <<>>
    /\ stats.errors = before.stats.errors + 1
    /\ memory = before.memory

\* the second model call of a request raised, in a conversation that has
\* history
C10_Witness ==
  /\ Len(ModelCalls) = 2
  /\ ModelCalls[2].raised
  /\ HistoryBefore # <<>>

\* C11: the response to a failed model call does not depend on the text of
\* the exception: whatever the model call raised, the body sent is the one
\* that would have been sent for any other exception text.
C11_ErrorReplyIndependentOfException ==
  (trace # <<>> /\ trace[Len(trace)].raised) =>
    \A e \in ModelErrors :
      sent = <<HttpResponse(500, <<>>, 0, "", FALSE, e)>>

\* The invocation of the request in progress failed inside the bus: the
\* worker raised or the secrets of its integration could not be fetched
SkillFailed ==
  \E k \in 1..Len(trace) : trace[k].kind = "invoke" /\ trace[k].failed # ""

\* A model call of the request in progress raised
ModelRaised ==
  \E k \in 1..Len(trace) : trace[k].raised

\* The model call that narrates the result of the skill was given d
NarrationCarries(d) ==
  LET call == ModelCalls[Len(ModelCalls)]
  IN  IF req.path = "rule"
      THEN /\ call.kind = "chat"
           /\ call.messages[Len(call.messages)].content =
                format_prompt(req.clean_text, req.match.skill_name, d)
      ELSE /\ call.kind = "chat_with_tool_result"
           /\ call.tool_result = d

\* C12: if the worker raises or the secrets of its integration cannot be
\* fetched, the handler sees no exception: the skill result is an object
\* with the single key "error" and a reason, the errors counter stays as it
\* was, and the turn ends with a normal reply, the serialized error object
\* on the raw branch and the model's narration of it otherwise.
C12_SkillFailureBecomesErrorResult ==
  SkillFailed =>
    /\ Len(req.skill_result) = 1
    /\ req.skill_result[1][1] = "error"
    /\ req.skill_result[1][2] # <<>>
    /\ ~ModelRaised => stats.errors = before.stats.errors
    /\ pc = "responded" /\ ~ModelRaised =>
         /\ Len(sent) = 1
         /\ sent[1].status = 200
         /\ sent[1].raw => /\ ModelCalls = <<>> \/ req.path = "ai"
                           /\ sent[1].text = format_raw_json(req.skill_result)
         /\ ~sent[1].raw =>
              /\ NarrationCarries(req.skill_result)
              /\ sent[1].text =
                   TextOr((IF req.path = "rule" THEN req.response
                           ELSE req.final_response).text,
                          "Got the data but couldn't format it.")

\* the worker raised and the model narrated the error object
C12_Witness ==
  /\ \E k \in 1..Len(trace) : trace[k].failed = "worker"
  /\ Replied
  /\ ~sent[1].raw
  /\ NarrationCarries(<< <<"error", <<"worker failed">>>> >>)

\* the secrets could not be fetched and the error object was returned raw
C12_WitnessRaw ==
  /\ \E k \in 1..Len(trace) : trace[k].failed = "secrets"
  /\ Replied
  /\ sent[1].raw

\* C13: routing is never entered with empty text: the text handed to the
\* conversational classifier, to the matcher and, as the user message, to the
\* model is not empty; a request whose text is empty is answered with the
\* "Empty message" rejection, without model call, skill invocation, history
\* write or change of a counter.
C13_RoutingNeverSeesEmptyText ==
  /\ \A k \in 1..Len(trace) :
       /\ trace[k].kind \in {"is_conversational", "match"} => trace[k].text # <<>>
       /\ (trace[k].kind = "chat" /\ req.path \in {"conversational", "ai"}) =>
            trace[k].messages[Len(trace[k].messages)].content # <<>>
  /\ req.path # "" => req.clean_text # <<>>
  /\ (pc = "responded" /\ req.text = <<>>) =>
       /\ Len(sent) = 1
       /\ sent[1].status = 400
       /\ sent[1].error = <<"Empty message">>
       /\ trace = <<>>
       /\ memory = before.memory
       /\ stats = before.stats

\* The handler of the request in progress has not yet answered
InProgress ==
  pc \notin {"idle", "responded"}

\* What holds of every state on the way of a message to its response
OneResponse ==
  handled > 0 =>
    /\ Len(sent) = (IF pc = "responded" THEN 1 ELSE 0)
    /\ \A k \in 1..Len(sent) : sent[k].status \in {200, 400, 500}
    /\ InProgress => req.path \in {"conversational", "rule", "ai"}
    /\ \A i, j \in 1..Len(trace) : trace[i] = trace[j] => i = j

\* What holds of every step of the handler of one message: the route stays
\* the one chosen, calls and responses are only added, and nothing follows
\* the response
NoReentry ==
  handled' = handled =>
    /\ req.path # "" => req'.path = req.path
    /\ Len(trace') >= Len(trace) /\ SubSeq(trace', 1, Len(trace)) = trace
    /\ Len(sent') >= Len(sent) /\ SubSeq(sent', 1, Len(sent)) = sent
    /\ InProgress
    /\ pc' # pc

\* C14: every message the handler accepts reaches the responded state, and
\* reaches it once: exactly one response is written whether routing succeeds
\* or a collaborator raises, the way from the start over one of the three
\* routes to the response is not entered again, and no model call or skill
\* invocation is made twice.
C14_RespondedExactlyOnce ==
  /\ []OneResponse
  /\ [][NoReentry]_vars
  /\ InProgress ~> (pc = "responded")

\* a message whose second model call raised has its one response
C14_Witness ==
  /\ pc = "responded"
  /\ ModelRaised
  /\ Len(Invocations) = 1
  /\ Len(sent) = 1

\* C15: when two messages are handled at once, each handler builds its reply
\* from the result of its own invocation: get_result returns to each handler
\* what its own publish stored, never the result of the other message and
\* never nothing.
C15_EachHandlerGetsItsOwnResult ==
  \A h \in Handlers :
    pc[h] = "has_result" =>
      /\ trace[h][2].failed = ""
      /\ trace[h][2].tool_result = trace[h][1].tool_result
      /\ req[h].skill_result = SkillResultOf([found |-> TRUE,
                                              value |-> trace[h][1].tool_result])

\* The same for two messages of different conversations
C15_DifferentConversations ==
  (\A h, g \in Handlers :
      h # g /\ req[h].path # "" /\ req[g].path # ""
        => req[h].conversation_id # req[g].conversation_id)
    => C15_EachHandlerGetsItsOwnResult

\* ------------------------------------------------------------------------
\* Properties of the functions of rule_router.py
\* ------------------------------------------------------------------------

\* The applications of strip_raw_flag made so far
StripCalls ==
  SelectSeq(trace, LAMBDA e : e.fn = "strip_raw_flag")

\* The applications of match made so far
MatchCalls ==
  SelectSeq(trace, LAMBDA e : e.fn = "match")

Marker ==
  <<"-","-","r","a","w">>

\* x holds the marker, in any letter case
HasMarker(x) ==
  Contains(Lower(x), Marker)

RECURSIVE SkipWhitespace(_, _)

\* The first offset from i on that is not followed by whitespace
SkipWhitespace(x, i) ==
  IF i < Len(x) /\ x[i + 1] \in Whitespace THEN SkipWhitespace(x, i + 1) ELSE i

RECURSIVE WithoutMarkers(_, _)

\* x from offset i on, with each marker and the whitespace next to it
\* replaced by one space
WithoutMarkers(x, i) ==
  IF i >= Len(x) THEN <<>>
  ELSE LET m == SkipWhitespace(x, i)
       IN  IF m + 5 <= Len(x) /\ Lower(SubSeq(x, m + 1, m + 5)) = Marker
           THEN <<" ">> \o WithoutMarkers(x, SkipWhitespace(x, m + 5))
           ELSE <<x[i + 1]>> \o WithoutMarkers(x, i + 1)

\* C16: strip_raw_flag is idempotent on the text: applied to the text it
\* returned, it returns that text again and the flag false, also where the
\* removal of a marker brings the characters around it together.
C16_StripRawFlagIdempotent ==
  Len(StripCalls) = 2 =>
    /\ StripCalls[2].text = StripCalls[1].result.text
    /\ StripCalls[2].result.text = StripCalls[1].result.text
    /\ ~StripCalls[2].result.is_raw

\* strip_raw_flag was applied twice to a text in which a marker stands
\* between "--r" and "aw"
C16_Witness ==
  /\ Len(StripCalls) = 2
  /\ StripCalls[1].text = <<"-","-","r","-","-","r","a","w","a","w">>
  /\ StripCalls[1].result.is_raw

\* C17: a text without a marker is returned unchanged with the flag false;
\* for a text with one or more markers, in any place and letter case, the
\* flag is true and the text returned holds no marker, has each marker and
\* the whitespace next to it replaced by one separator, and has no leading
\* or trailing whitespace.
C17_StripRawFlagResult ==
  \A k \in 1..Len(StripCalls) :
    LET x == StripCalls[k].text
        r == StripCalls[k].result
    IN  /\ ~HasMarker(x) => r.text = x /\ ~r.is_raw
        /\ HasMarker(x) =>
             /\ r.is_raw
             /\ ~HasMarker(r.text)
             /\ r.text = Strip(WithoutMarkers(x, 0))
             /\ r.text # <<>> => /\ r.text[1] \notin Whitespace
                                 /\ r.text[Len(r.text)] \notin Whitespace

\* a text with a marker in upper case between two pieces of text: the
\* marker and the spaces around it became one space
C17_Witness ==
  /\ Len(StripCalls) >= 1
  /\ StripCalls[1].text = <<"a","w"," ","-","-","R","A","W"," ","a">>
  /\ StripCalls[1].result.is_raw
  /\ StripCalls[1].result.text = <<"a","w"," ","a">>

\* a text with two markers of different letter case
C17_WitnessTwoMarkers ==
  /\ Len(StripCalls) >= 1
  /\ StripCalls[1].text = <<"a"," ","-","-","R","A","W"," ","-","-","r","a","w">>
  /\ StripCalls[1].result.is_raw
  /\ StripCalls[1].result.text = <<"a">>

\* The highest confidence among the enabled skills, 0 if none is enabled
BestConfidence(text_lower, enabled) ==
  Max({0} \cup {score_match(text_lower, rule_router.rule_sets[k]) :
                  k \in {j \in 1..Len(rule_router.rule_sets) :
                           InList(rule_router.rule_sets[j].skill_name, enabled)}})

\* C18: match returns a RouteMatch exactly when the highest confidence among
\* the enabled skills is greater than zero and at least the threshold, and
\* None otherwise; a RouteMatch it returns has a confidence of at least the
\* threshold.
C18_MatchIffAboveThreshold ==
  \A k \in 1..Len(MatchCalls) :
    LET text_lower == Strip(Lower(MatchCalls[k].text))
        threshold == MatchCalls[k].confidence_threshold
        m == MatchCalls[k].result
        best == BestConfidence(text_lower, enabled_skills)
    IN  /\ m.found <=> (best > 0 /\ 100 * best >= threshold * ScoreDen(text_lower))
        /\ m.found => /\ m.confidence = best
                      /\ 100 * m.confidence >= threshold * ScoreDen(text_lower)
        /\ ~m.found => m = NoMatch

\* match returned None although an enabled skill has a confidence above zero
C18_Witness ==
  /\ Len(MatchCalls) = 1
  /\ ~MatchCalls[1].result.found
  /\ BestConfidence(Strip(Lower(MatchCalls[1].text)), enabled_skills) > 0

\* The rule set of a skill
RuleSetOf(skill_name) ==
  rule_router.rule_sets[CHOOSE k \in 1..Len(rule_router.rule_sets) :
                          rule_router.rule_sets[k].skill_name = skill_name]

\* The action rules of a rule set whose pattern matches the text
RulesHit(text_lower, rule_set) ==
  {k \in 1..Len(rule_set.action_rules) :
     Search(rule_set.action_rules[k].pattern, text_lower)}

\* C19: the action of the selected skill is that of the first rule, in the
\* order of declaration, whose pattern matches the text: if rule A stands
\* before rule B and both match, the action is A's; if no rule matches, it
\* is the action of the last rule declared.
C19_FirstMatchingRuleGivesAction ==
  \A k \in 1..Len(MatchCalls) :
    MatchCalls[k].result.found =>
      LET text_lower == Strip(Lower(MatchCalls[k].text))
          m == MatchCalls[k].result
          rules == RuleSetOf(m.skill_name).action_rules
          hits == RulesHit(text_lower, RuleSetOf(m.skill_name))
      IN  /\ \A a \in hits :
               (\A b \in hits : a <= b) => m.action = rules[a].action
          /\ (hits = {} /\ Len(rules) > 0) => m.action = rules[Len(rules)].action

\* the text matches a "blockers" rule and the later rule for "sprint"
C19_Witness ==
  /\ Len(MatchCalls) = 1
  /\ MatchCalls[1].result.found
  /\ MatchCalls[1].result.action = "blockers"
  /\ \E a, b \in RulesHit(Strip(Lower(MatchCalls[1].text)),
                          RuleSetOf(MatchCalls[1].result.skill_name)) :
       /\ a < b
       /\ RuleSetOf(MatchCalls[1].result.skill_name).action_rules[b].action = "status"

\* the text matches no rule of the selected skill
C19_WitnessFallback ==
  /\ Len(MatchCalls) = 1
  /\ MatchCalls[1].result.found
  /\ RuleSetOf(MatchCalls[1].result.skill_name).action_rules # <<>>
  /\ RulesHit(Strip(Lower(MatchCalls[1].text)),
              RuleSetOf(MatchCalls[1].result.skill_name)) = {}

\* C20: for a text that, lower-cased and trimmed, is one of the trigger
\* phrases of a skill, the confidence of that skill is at least 0.7, and
\* match selects that skill whenever it is enabled and its confidence is at
\* least the threshold.
C20_ExactTriggerSelectsSkill ==
  \A k \in 1..Len(MatchCalls) :
    LET text_lower == Strip(Lower(MatchCalls[k].text))
        threshold == MatchCalls[k].confidence_threshold
        m == MatchCalls[k].result
    IN  \A j \in 1..Len(rule_router.rule_sets) :
          LET rule_set == rule_router.rule_sets[j]
              confidence == score_match(text_lower, rule_set)
          IN  InList(text_lower, rule_set.triggers) =>
                /\ 100 * confidence >= 70 * ScoreDen(text_lower)
                /\ (/\ InList(rule_set.skill_name, enabled_skills)
                    /\ 100 * confidence >= threshold * ScoreDen(text_lower))
                     => m.found /\ m.skill_name = rule_set.skill_name

\* a text that becomes a trigger phrase by lower-casing and trimming was
\* routed to the skill of the trigger
C20_Witness ==
  /\ Len(MatchCalls) = 1
  /\ MatchCalls[1].text # Strip(Lower(MatchCalls[1].text))
  /\ MatchCalls[1].result.found
  /\ InList(Strip(Lower(MatchCalls[1].text)),
            RuleSetOf(MatchCalls[1].result.skill_name).triggers)

\* ------------------------------------------------------------------------
\* Properties of the model-routed path
\* ------------------------------------------------------------------------

\* The enabled skills the registry holds, in the order of the enabled list
RegisteredEnabled ==
  SelectSeq(enabled_skills,
            LAMBDA s : \E k \in 1..Len(Registry) : Registry[k].name = s)

\* The matcher was asked about the request in progress and returned None
MatcherFoundNothing ==
  MatcherRan /\ ~match(rule_router, req.clean_text, enabled_skills).found

\* C21: when the matcher returns no match, the tools given to the model are
\* exactly the enabled skills that are registered, in the order of the
\* enabled list, and the message sent is the cleaned text of the user; with
\* an empty enabled list the matcher returns no match for every text and
\* the model is called with an empty tool list.
C21_NoMatchModelGetsEnabledTools ==
  /\ MatcherFoundNothing =>
       /\ req.path = "ai"
       /\ \A k \in 1..Len(ModelCalls) : ModelCalls[k].tools = RegisteredEnabled
       /\ ModelCalls # <<>> =>
            /\ ModelCalls[1].kind = "chat"
            /\ ModelCalls[1].messages =
                 req.history \o <<[role |-> "user", content |-> req.clean_text]>>
  /\ (enabled_skills = <<>> /\ MatcherRan) =>
       /\ MatcherFoundNothing
       /\ \A k \in 1..Len(ModelCalls) : ModelCalls[k].tools = <<>>

\* the model was called on the model-routed path for a tenant whose enabled
\* list names a skill the registry does not hold
C21_Witness ==
  /\ MatcherFoundNothing
  /\ Len(ModelCalls) >= 1
  /\ RegisteredEnabled # enabled_skills
  /\ ModelCalls[1].tools = <<"ping">>

\* the model was called for a tenant with no enabled skill
C21_WitnessEmpty ==
  /\ enabled_skills = <<>>
  /\ MatcherRan
  /\ Len(ModelCalls) >= 1
  /\ ModelCalls[1].tools = <<>>

HiThere ==
  <<"h","i"," ","t","h","e","r","e">>

\* C22: the message "hi there", sent without the raw marker, is routed as
\* conversational: no skill is invoked and the one model call carries no
\* tool definitions.
C22_HiThereIsConversational ==
  (pc # "idle" /\ req.text = HiThere) =>
    /\ req.path = "conversational"
    /\ Invocations = <<>>
    /\ Len(ModelCalls) <= 1
    /\ \A k \in 1..Len(ModelCalls) : ModelCalls[k].tools = <<>>
    /\ Replied => Len(ModelCalls) = 1

\* What the handler does with "hi there": no conversational pattern
\* matches it, the matcher is asked and finds no skill, and the request
\* takes the model-routed path
C22_HiThereGoesToTheMatcher ==
  (pc # "idle" /\ req.text = HiThere) => MatcherRan /\ req.path = "ai"

\* ------------------------------------------------------------------------
\* Properties of the parameters of a RouteMatch
\* ------------------------------------------------------------------------

\* The values a dict holds under a key
ValuesOf(d, key) ==
  {d[k][2] : k \in {j \in 1..Len(d) : d[j][1] = key}}

\* The text holds an e-mail address: an "@" with a character of a local
\* part before it and, after it, a domain label, a dot and a further
\* character of a domain
HasEmailAddress(x) ==
  \E i \in 2..Len(x) :
    /\ x[i] = "@"
    /\ x[i - 1] \in WordChars \cup {".", "+", "-"}
    /\ \E j \in (i + 1)..(Len(x) - 2) :
         /\ \A k \in (i + 1)..j : x[k] \in WordChars \cup {"-"}
         /\ x[j + 1] = "."
         /\ x[j + 2] \in WordChars \cup {"."}

\* C23: the params of every RouteMatch hold the key "action" with the
\* selected action, and hold the key "assignee_email" if and only if the
\* action is "mine" and the text holds an e-mail address; for "my jira
\* tickets" with sprint_status enabled the action is "mine" and there is no
\* "assignee_email".
C23_ParamsOfRouteMatch ==
  \A k \in 1..Len(MatchCalls) :
    LET m == MatchCalls[k].result
        text == MatchCalls[k].text
    IN  /\ m.found =>
             /\ ValuesOf(m.params, "action") = {<<m.action>>}
             /\ Cardinality({j \in 1..Len(m.params) : m.params[j][1] = "action"}) = 1
             /\ (ValuesOf(m.params, "assignee_email") # {})
                  <=> (m.action = "mine" /\ HasEmailAddress(text))
        /\ (/\ text = <<"m","y"," ","j","i","r","a"," ","t","i","c","k","e","t","s">>
            /\ InList("sprint_status", enabled_skills)
            /\ MatchCalls[k].confidence_threshold <= 70) =>
             /\ m.found
             /\ m.action = "mine"
             /\ ValuesOf(m.params, "assignee_email") = {}

\* a text about the tickets of the user with an e-mail address was matched
\* and its params hold the address
C23_Witness ==
  /\ Len(MatchCalls) = 1
  /\ MatchCalls[1].result.found
  /\ MatchCalls[1].result.action = "mine"
  /\ HasEmailAddress(MatchCalls[1].text)
  /\ ValuesOf(MatchCalls[1].result.params, "assignee_email") # {}

\* "my jira tickets" was matched with sprint_status enabled
C23_WitnessMyJiraTickets ==
  /\ Len(MatchCalls) = 1
  /\ MatchCalls[1].text = <<"m","y"," ","j","i","r","a"," ","t","i","c","k","e","t","s">>
  /\ MatchCalls[1].result.found
  /\ MatchCalls[1].result.skill_name = "sprint_status"

\* a text with an e-mail address was matched with another action than "mine"
C23_WitnessOtherAction ==
  /\ Len(MatchCalls) = 1
  /\ MatchCalls[1].result.found
  /\ MatchCalls[1].result.action # "mine"
  /\ HasEmailAddress(MatchCalls[1].text)

\* ------------------------------------------------------------------------
\* Properties of the conversation store
\* ------------------------------------------------------------------------

RECURSIVE SavedUnder(_, _, _)

\* The messages the first n calls of the log left under a tenant and a
\* conversation: what that tenant saved there since it last cleared it
SavedUnder(n, tenant_id, conversation_id) ==
  IF n = 0 THEN <<>>
  ELSE LET call == trace[n]
           earlier == SavedUnder(n - 1, tenant_id, conversation_id)
       IN  IF call.tenant_id # tenant_id \/ call.conversation_id # conversation_id
           THEN earlier
           ELSE IF call.op = "clear_conversation" THEN <<>>
           ELSE IF call.op = "save_turn"
           THEN earlier \o << [role |-> "user", content |-> call.user_message],
                              [role |-> "assistant", content |-> <<"reply">>] >>
           ELSE earlier

\* C24: the history is kept per tenant: save_turn and clear_conversation
\* of one tenant leave the history of every other tenant as it was, also
\* under the same conversation id, and get_conversation for a tenant
\* returns only messages saved under that tenant.
C24_ConversationsIsolatedPerTenant ==
  /\ trace # <<>> =>
       \A c \in DOMAIN memory :
         c[1] # trace[Len(trace)].tenant_id => memory[c] = before.memory[c]
  /\ \A n \in 1..Len(trace) :
       trace[n].op = "get_conversation" =>
         trace[n].result =
           SavedUnder(n - 1, trace[n].tenant_id, trace[n].conversation_id)

\* two tenants saved different messages under the same conversation id and
\* one of them read its history
C24_Witness ==
  /\ Len(trace) = 3
  /\ trace[1].op = "save_turn" /\ trace[2].op = "save_turn"
  /\ trace[3].op = "get_conversation"
  /\ trace[1].tenant_id # trace[2].tenant_id
  /\ trace[1].conversation_id = trace[2].conversation_id
  /\ trace[1].user_message # trace[2].user_message
  /\ trace[3].tenant_id = trace[2].tenant_id
  /\ trace[3].conversation_id = trace[2].conversation_id
  /\ Len(trace[3].result) = 2

\* a tenant cleared a conversation id under which another tenant holds
\* messages
C24_WitnessClear ==
  /\ Len(trace) >= 2
  /\ trace[Len(trace)].op = "clear_conversation"
  /\ \E c \in DOMAIN memory :
       /\ c[1] # trace[Len(trace)].tenant_id
       /\ c[2] = trace[Len(trace)].conversation_id
       /\ memory[c] # <<>>

\* ------------------------------------------------------------------------
\* Properties of extract_auth
\* ------------------------------------------------------------------------

\* The value of the Authorization header, empty without one
AuthorizationOf(headers) ==
  IF \E k \in 1..Len(headers) : headers[k][1] = "Authorization"
  THEN headers[CHOOSE k \in 1..Len(headers) : headers[k][1] = "Authorization"][2]
  ELSE <<>>

\* The header starts with "Bearer " and its token has three segments
WellFormedBearer(headers) ==
  LET a == AuthorizationOf(headers)
  IN  /\ Len(a) >= 7
      /\ \A k \in 1..7 : a[k] = Bearer[k]
      /\ Cardinality({k \in 8..Len(a) : a[k] = "."}) = 2

\* The claims of the token of a well-formed header: the items of the dict
\* its second segment decodes to, none if it does not decode to a dict
ClaimsOf(headers) ==
  LET a == AuthorizationOf(headers)
      dots == {k \in 8..Len(a) : a[k] = "."}
      first == CHOOSE k \in dots : \A j \in dots : k <= j
      segment == IF a[first + 1] = "." THEN "" ELSE a[first + 1]
  IN  DecodedPayload[segment]

\* The value of a claim, the empty str without it
Claim(headers, name) ==
  LET items == ClaimsOf(headers).items
  IN  IF \E k \in 1..Len(items) : items[k][1] = name
      THEN items[CHOOSE k \in 1..Len(items) : items[k][1] = name][2]
      ELSE JsonStr(<<>>)

\* The claim is there and is not empty
NonEmptyClaim(headers, name) ==
  Claim(headers, name) \notin
    {JsonStr(<<>>), [t |-> "null", s |-> <<>>], [t |-> "int", s |-> <<"0">>],
     [t |-> "list", s |-> <<>>]}

\* C25: extract_auth returns an AuthContext only when the Authorization
\* header starts with "Bearer ", the token has exactly three segments and
\* the decoded payload has a non-empty "sub" and a non-empty
\* "custom:tenant_id", and user_id, tenant_id and email are those claims;
\* in every other case it raises AuthError and no other exception, with
\* status 403 where the tenant claim is what is missing and 401 otherwise.
C25_ExtractAuthReturnsOrRaisesAuthError ==
  \A k \in 1..Len(trace) :
    LET headers == trace[k].headers
        r == trace[k].result
        valid == /\ WellFormedBearer(headers)
                 /\ ClaimsOf(headers).dict
                 /\ NonEmptyClaim(headers, "sub")
                 /\ NonEmptyClaim(headers, "custom:tenant_id")
        tenant_missing == /\ WellFormedBearer(headers)
                          /\ ClaimsOf(headers).dict
                          /\ NonEmptyClaim(headers, "sub")
                          /\ ~NonEmptyClaim(headers, "custom:tenant_id")
    IN  /\ r.raised \in {"", "AuthError"}
        /\ r.raised = "" =>
             /\ valid
             /\ r.user_id = Claim(headers, "sub")
             /\ r.tenant_id = Claim(headers, "custom:tenant_id")
             /\ r.email = Claim(headers, "email")
        /\ ~valid => r.raised = "AuthError"
        /\ r.raised = "AuthError" =>
             r.status = IF tenant_missing THEN 403 ELSE 401

\* an AuthContext was returned for a token with the three claims
C25_Witness ==
  /\ Len(trace) = 1
  /\ trace[1].result.raised = ""
  /\ trace[1].result.user_id = JsonStr(<<"user-123">>)
  /\ trace[1].result.tenant_id = JsonStr(<<"my-tenant">>)
  /\ trace[1].result.email = JsonStr(<<"user@example.com">>)

\* AuthError with status 403 was raised for a token without the tenant claim
C25_WitnessForbidden ==
  /\ Len(trace) = 1
  /\ trace[1].result.raised = "AuthError"
  /\ trace[1].result.status = 403

\* AuthError was raised for a payload that is not JSON
C25_WitnessNotJson ==
  /\ Len(trace) = 1
  /\ WellFormedBearer(trace[1].headers)
  /\ ClaimsOf(trace[1].headers).error = "JSONDecodeError"
  /\ trace[1].result.raised = "AuthError"
  /\ trace[1].result.status = 401

\* AuthError was raised for a token that has the two claims: its "sub" is a
\* number, which the log line cannot slice
C25_WitnessValidClaimsRejected ==
  /\ Len(trace) = 1
  /\ WellFormedBearer(trace[1].headers)
  /\ NonEmptyClaim(trace[1].headers, "sub")
  /\ NonEmptyClaim(trace[1].headers, "custom:tenant_id")
  /\ trace[1].result.raised = "AuthError"

\* ------------------------------------------------------------------------
\* Properties of the choice among the enabled skills and of the score
\* ------------------------------------------------------------------------

\* The confidence of a skill for a text, 0 for a skill without a rule set
ConfidenceOf(text_lower, skill_name) ==
  IF \E k \in 1..Len(rule_router.rule_sets) :
       rule_router.rule_sets[k].skill_name = skill_name
  THEN score_match(text_lower, RuleSetOf(skill_name))
  ELSE 0

\* C26: when two or more enabled skills share the highest confidence for a
\* text, match returns the one that comes first in the enabled-skill list
\* of the caller; a later skill replaces the best so far only with a
\* strictly higher confidence.
C26_TieKeepsFirstEnabledSkill ==
  \A k \in 1..Len(MatchCalls) :
    LET text_lower == Strip(Lower(MatchCalls[k].text))
        m == MatchCalls[k].result
        best == BestConfidence(text_lower, enabled_skills)
        leaders == {j \in 1..Len(enabled_skills) :
                      ConfidenceOf(text_lower, enabled_skills[j]) = best}
    IN  m.found =>
          m.skill_name = enabled_skills[CHOOSE j \in leaders : \A i \in leaders : j <= i]

\* What match does: among the enabled skills that share the highest
\* confidence it returns the one registered first
C26_TieKeepsFirstRegisteredSkill ==
  \A k \in 1..Len(MatchCalls) :
    LET text_lower == Strip(Lower(MatchCalls[k].text))
        m == MatchCalls[k].result
        best == BestConfidence(text_lower, enabled_skills)
        leaders == {j \in 1..Len(Registry) :
                      /\ InList(Registry[j].name, enabled_skills)
                      /\ ConfidenceOf(text_lower, Registry[j].name) = best}
    IN  m.found =>
          m.skill_name = Registry[CHOOSE j \in leaders : \A i \in leaders : j <= i].name

\* The triggers of a rule set that are substrings of the text
MatchingTriggers(text_lower, rule_set) ==
  {k \in 1..Len(rule_set.triggers) :
     \E i \in 0..(Len(text_lower) - Len(rule_set.triggers[k])) :
       SubSeq(text_lower, i + 1, i + Len(rule_set.triggers[k])) = rule_set.triggers[k]}

\* The detection patterns of a rule set that match somewhere in the text
Hits(text_lower, rule_set) ==
  Cardinality({k \in 1..Len(rule_set.patterns) :
                 Search(rule_set.patterns[k], text_lower)})

\* T in units of 1 / ScoreDen: the highest 0.7 + 0.3 * len(trigger) / len
\* over the matching triggers, 0 without one
TriggerScore(text_lower, rule_set) ==
  LET len == IF Len(text_lower) >= 1 THEN Len(text_lower) ELSE 1
      each == {70 * len + 30 * Len(rule_set.triggers[k]) :
                 k \in MatchingTriggers(text_lower, rule_set)}
  IN  IF each = {} THEN 0 ELSE CHOOSE t \in each : \A u \in each : u <= t

\* P in units of 1 / ScoreDen: min(0.5 + 0.15 * hits, 0.9), 0 without a hit
PatternScore(text_lower, rule_set) ==
  LET len == IF Len(text_lower) >= 1 THEN Len(text_lower) ELSE 1
      hits == Hits(text_lower, rule_set)
  IN  IF hits = 0 THEN 0
      ELSE IF 50 + 15 * hits < 90 THEN (50 + 15 * hits) * len ELSE 90 * len

\* C27: for every text and rule set the confidence is max(T, P), with T the
\* highest 0.7 + 0.3 * len(trigger) / max(len(text), 1) over the matching
\* triggers (0 if none) and P = min(0.5 + 0.15 * hits, 0.9) for one or more
\* hits of detection patterns (0 if none); it lies in [0, 1], and a skill
\* without a matching trigger never scores above 0.9.
C27_ConfidenceIsMaxOfTriggerAndPattern ==
  \A k \in 1..Len(MatchCalls) :
    LET text_lower == Strip(Lower(MatchCalls[k].text))
    IN  \A j \in 1..Len(rule_router.rule_sets) :
          LET rule_set == rule_router.rule_sets[j]
              confidence == score_match(text_lower, rule_set)
              T == TriggerScore(text_lower, rule_set)
              P == PatternScore(text_lower, rule_set)
          IN  /\ confidence = IF T >= P THEN T ELSE P
              /\ confidence >= 0
              /\ confidence <= ScoreDen(text_lower)
              /\ MatchingTriggers(text_lower, rule_set) = {} =>
                   100 * confidence <= 90 * ScoreDen(text_lower)
              /\ (MatchCalls[k].result.found
                  /\ MatchCalls[k].result.skill_name = rule_set.skill_name) =>
                   MatchCalls[k].result.confidence = confidence

\* a text in which a trigger and three patterns of the matched skill match,
\* the patterns giving more than the trigger
C27_Witness ==
  /\ Len(MatchCalls) = 1
  /\ MatchCalls[1].result.found
  /\ LET text_lower == Strip(Lower(MatchCalls[1].text))
         rule_set == RuleSetOf(MatchCalls[1].result.skill_name)
     IN  /\ MatchingTriggers(text_lower, rule_set) # {}
         /\ Hits(text_lower, rule_set) >= 3
         /\ PatternScore(text_lower, rule_set) > TriggerScore(text_lower, rule_set)
         /\ 100 * MatchCalls[1].result.confidence = 90 * ScoreDen(text_lower)

\* a text in which two triggers of the matched skill match and give more
\* than its patterns
C27_WitnessTwoTriggers ==
  /\ Len(MatchCalls) = 1
  /\ MatchCalls[1].result.found
  /\ LET text_lower == Strip(Lower(MatchCalls[1].text))
         rule_set == RuleSetOf(MatchCalls[1].result.skill_name)
     IN  /\ Cardinality(MatchingTriggers(text_lower, rule_set)) = 2
         /\ Hits(text_lower, rule_set) >= 1
         /\ TriggerScore(text_lower, rule_set) > PatternScore(text_lower, rule_set)

\* C28: for a text of no character, or of whitespace only, the confidence
\* of every skill is zero for every rule set the router can hold, and match
\* returns no match.
C28_BlankTextScoresZero ==
  \A k \in 1..Len(trace) :
    Strip(Lower(trace[k].text)) = <<>> =>
      /\ \A j \in 1..Len(trace[k].rule_sets) :
           score_match(<<>>, trace[k].rule_sets[j]) = 0
      /\ trace[k].result = NoMatch

\* What holds for a blank text: the confidence of a skill is zero unless
\* one of its triggers is empty once stripped
C28_BlankTextScoresZeroWithoutBlankTrigger ==
  \A k \in 1..Len(trace) :
    Strip(Lower(trace[k].text)) = <<>> =>
      \A j \in 1..Len(trace[k].rule_sets) :
        score_match(<<>>, trace[k].rule_sets[j]) # 0 =>
          InList(<<>>, trace[k].rule_sets[j].triggers)

\* a blank text was matched by a router none of whose triggers is blank
C28_BlankTextNoBlankTrigger ==
  /\ Len(trace) = 1
  /\ Strip(Lower(trace[1].text)) = <<>>
  /\ \A j \in 1..Len(trace[1].rule_sets) :
       ~InList(<<>>, trace[1].rule_sets[j].triggers)
  /\ InList("sprint_status", enabled_skills)
  /\ trace[1].result = NoMatch

\* C29: every skill invocation the handler publishes, after a rule match
\* and after a tool call of the model, names a skill of the tenant's list
\* of enabled skills, whatever tool name the response of the model carries.
C29_InvocationsTargetEnabledSkills ==
  \A k \in 1..Len(Invocations) :
    InList(Invocations[k].skill_name, enabled_skills)

\* What holds: an invocation published before any model call, which is the
\* one that follows a rule match, names the matched skill, which is enabled
C29_RuleMatchedInvocationTargetsEnabledSkill ==
  \A k \in 1..Len(trace) :
    (/\ trace[k].kind = "invoke"
     /\ \A j \in 1..(k - 1) : trace[j].kind # "chat") =>
      /\ req.match # NoMatch
      /\ trace[k].skill_name = req.match.skill_name
      /\ InList(trace[k].skill_name, enabled_skills)

\* the model named a tool that was not offered and the handler published it
C29_DisabledSkillInvoked ==
  /\ Len(Invocations) = 1
  /\ ~InList(Invocations[1].skill_name, enabled_skills)
  /\ ~InList(Invocations[1].skill_name,
             [j \in 1..Len(req.tools) |-> req.tools[j].name])

\* The calls of the log before call k that name the request id of call k
EarlierCalls(k) ==
  { j \in 1..(k - 1) : /\ trace[j].request_id = trace[k].request_id
                       /\ ~(trace[j].op = "publish" /\ ~trace[j].found) }

\* The last of them
LastCall(k) ==
  CHOOSE j \in EarlierCalls(k) : \A i \in EarlierCalls(k) : i <= j

\* The request ids whose last call stored a result that nothing retrieved
Unretrieved ==
  { r \in RequestIds :
      \E k \in 1..Len(trace) :
        /\ trace[k].request_id = r /\ trace[k].op = "publish" /\ trace[k].found
        /\ \A j \in (k + 1)..Len(trace) :
             trace[j].request_id = r => (trace[j].op = "publish" /\ ~trace[j].found) }

\* An error object: a dict with the one key "error"
IsErrorObject(result) ==
  Len(result) = 1 /\ result[1][1] = "error"

\* C30: a published skill invocation leaves one result under its request
\* id, which is what the worker returned or an error object; get_result
\* returns that result to the first call made for the id after the publish
\* and None to every later call until the id is published again, so a
\* result that was retrieved is no longer pending.
C30_ResultStoredOnceConsumedOnce ==
  /\ DOMAIN pending_results = Unretrieved
  /\ \A k \in 1..Len(trace) :
       /\ (trace[k].op = "publish" /\ trace[k].found) =>
            \/ IsErrorObject(trace[k].result)
            \/ \E env \in WorkerEnvs :
                 /\ WorkerCan(trace[k].skill_name, env)
                 /\ trace[k].result = WorkerResult(trace[k].skill_name, <<>>, env)
       /\ trace[k].op = "get_result" =>
            IF EarlierCalls(k) # {} /\ trace[LastCall(k)].op = "publish"
            THEN /\ trace[k].found
                 /\ trace[k].result = trace[LastCall(k)].result
            ELSE /\ ~trace[k].found
                 /\ trace[k].result = <<>>
  /\ \A r \in Unretrieved :
       \E k \in 1..Len(trace) :
         /\ trace[k].request_id = r /\ trace[k].op = "publish"
         /\ pending_results[r] = trace[k].result
         /\ \A j \in (k + 1)..Len(trace) :
              trace[j].request_id = r => ~trace[j].found

\* a result was published, retrieved, and asked for once more
C30_Witness ==
  /\ Len(trace) = 3
  /\ trace[1].op = "publish" /\ trace[1].found
  /\ trace[1].skill_name = "sprint_status" /\ ~IsErrorObject(trace[1].result)
  /\ trace[2].op = "get_result" /\ trace[2].request_id = trace[1].request_id
  /\ trace[2].found /\ trace[2].result = trace[1].result
  /\ trace[3].op = "get_result" /\ trace[3].request_id = trace[1].request_id
  /\ ~trace[3].found
  /\ pending_results = [r \in {} |-> <<>>]

\* two publishes for one id left one result, the second, which the one
\* retrieval that followed returned
C30_WitnessPublishedTwice ==
  /\ Len(trace) = 3
  /\ trace[1].op = "publish" /\ trace[1].found
  /\ trace[2].op = "publish" /\ trace[2].found
  /\ trace[2].request_id = trace[1].request_id
  /\ trace[2].result # trace[1].result
  /\ IsErrorObject(trace[2].result)
  /\ trace[3].op = "get_result" /\ trace[3].request_id = trace[1].request_id
  /\ trace[3].result = trace[2].result
  /\ pending_results = [r \in {} |-> <<>>]

\* In the handler, which retrieves the result right after it publishes,
\* nothing is pending between the steps of a message or after it
C30_NothingPendingAfterMessage ==
  /\ pending_results = [r \in {} |-> <<>>]
  /\ \A k \in 1..Len(Invocations) :
       ~get_result(pending_results, Invocations[k].request_id).found
====
